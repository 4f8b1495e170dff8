CONSTANTS
  Padded <- NoTexts
  Integers <- Whole
  DateTimes <- NoTexts
  Formatted <- NoTexts
  Narrowed <- NoTexts
  Staff = {ann, bob}
  ann = ann
  bob = bob
  Model <- Article
  Excluded = {"Views"}
  Unique = {"Title"}
  Stamp <- MCStamp
  Defaults <- MCDefaults
  Typed = {"b", ""}
  Rows <- MCRows
  Owners <- MCOwners
  Keys <- MCKeys
  Enforced = FALSE
  MaxRequests = 2
  MaxTouches = 1
  Counted = {"Views"}
  Counts <- MCCounts
SPECIFICATION Spec
SYMMETRY Alike
CHECK_DEADLOCK FALSE
INVARIANTS NoMixedSubmission
PROPERTIES NoResurrection ReferencesOffered
