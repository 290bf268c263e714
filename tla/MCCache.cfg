SPECIFICATION Spec
CONSTANTS
  Keys = {1, 2, 3}
  hash_table_width = 2
  max_cache_size = 3
  MaxPuts = 5
INVARIANT ListsAgree
PROPERTY ImplementsMultiMap
