---------------------------- MODULE MCTemplateApi ----------------------------
EXTENDS TemplateApi, TLC

ApiSymmetry == Permutations(Requests) \cup Permutations(Templates) \cup Permutations(Keys)

(* No request lasts as long as a record: 24 hours. *)
RequestsAreShort ==
  \A r \in Requests : key[r] \in expired' \ expired => pc[r] \in {"new", "done"}

ShortSpec == Init /\ [][Next /\ RequestsAreShort]_vars
=============================================================================
