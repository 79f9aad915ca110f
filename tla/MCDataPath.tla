----------------------------- MODULE MCDataPath -----------------------------
(* The data path for TLC.                                                  *)
EXTENDS DataPath

BeforeWrap == [base |-> 0, micros |-> SPACE - 3]
ShortAndLong ==
    <<[length |-> 1, payload |-> 1], [length |-> 2, payload |-> 2],
      [length |-> 2, payload |-> 3], [length |-> 1, payload |-> 0],
      [length |-> 2, payload |-> 1], [length |-> 2, payload |-> 2]>>
=============================================================================
