\* Two URNs and two attributes, in every order of first use, up to three values.
CONSTANTS
  Urns = {u1, u2}
  Attributes = {a1, a2}
  Values = {v1, v2}
  MaxValues = 3
SPECIFICATION Spec
PROPERTIES ImplementsTripleStore 
