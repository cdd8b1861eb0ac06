\* Six events use up to twelve ids, of three: ids start again, over ids that
\* are free and over ids that are in use.
SPECIFICATION Spec
CONSTANTS
  Promises = {p1, p2, p3, p4}
  MaxId = 3
  MaxEvents = 6
SYMMETRY Symmetry
INVARIANTS TypeOK AnswersAreTracked IdNamesPromise ClientListsPromises TrackedForClient
