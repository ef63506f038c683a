CONSTANTS
  c1 = c1
  c2 = c2
  Clients <- MCClients
  MaxLength = 2
  MaxSeq = 1
  MaxEtag = 3
  NoValue = NoValue
  \* Callers fence writes with the sequence number they created the blob with.
  Conditions = {"IfSequenceNumberEqual"}

SPECIFICATION Spec

INVARIANT
  SequenceConditionHonoured
