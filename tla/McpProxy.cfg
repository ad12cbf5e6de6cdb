CONSTANTS
  first = first
  second = second
  again = again
  bare = bare
  one = one
  two = two
  NoId = NoId
  NoCall = NoCall
  Calls = {first, second, again, bare}
  Ids = {one, two}
  IdOf <- IdTable
  ServerIds = {one}
SPECIFICATION FairSpec
CHECK_DEADLOCK FALSE
INVARIANTS
  CallsAreAccounted
PROPERTIES
  ImplementsCallBook
  ProxyMakesProgress
