SPECIFICATION WorkSpec
CONSTANTS
  i1 = i1
  p1 = p1
  t1 = t1
  Works = {i1, p1, t1}
  Arenas = {x1}
  Links = {"DEPENDS_ON"}
  MaxVersion = 3
  None = None
  Kind <- MCKindOfWork
  Contents = {1, 2}
  Keys = {1}
  Agents = {a1, a2}
  Lifetime = 1
  MaxChanges = 1
  Operations = {"list", "get", "relationships"}
  Relationships = {"children", "parent"}
  WorkKinds = {"Issue", "Task"}
  NoArena = NoArena
  NoTarget = NoTarget
  Credentials = {"c1", "c2"}
  Profile <- MCProfile
  Manifest <- MCManifest
  ReadWorks = {"w1", "w2"}
  KindOf <- MCKindOf
  ReadArenas = {"a1", "a2"}
  ReadCalls = {1}
  MaxQueries = 1
  MaxRows = 1
  MaxReadTime = 1
  MaxPublished = 1
  MaxWritten = 1
  Refs = {1, 2, 3}
  PageLimit = 1
  NoCursor = NoCursor
  DocumentMax = 2
  MaxAttached = 3
  MaxFileWrites = 3
  WorkKeys = {1, 2, 3, 4}
  Existing = {1, 2, 3}
  KindSeq <- MCKinds
  KindOfKey <- MCKindOfKey
  QueryLimit = 2
  BoardBudget = 3
  CardLimit = 1
  NoParent = 0
  MaxEdits = 2
SYMMETRY Symmetry
INVARIANTS PlacesHold Acyclic   PagesAreWhole
PROPERTIES ChangesAreVersioned CompletedScopeIsFixed
CHECK_DEADLOCK FALSE
