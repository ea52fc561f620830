\* Three keys, one of them the key of shows without id, and one content.
CONSTANTS
  Ids = {k0, k1, k2}
  Fields = {f}
  DefaultId = k0
  NoId = nil
SPECIFICATION Spec
INVARIANTS KeysUnique ObjectsFollowTheirRows ReadersSeeCommitted IInv
PROPERTIES OnlyOwnDeletionDetaches ImplementsFavoriteStore
