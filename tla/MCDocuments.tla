------------------------------ MODULE MCDocuments ------------------------------
(* One instance of the three machines that read documents. Each behaviour is  *)
(* one of a single machine; the others are parked in a state none of their    *)
(* actions starts from.                                                       *)
EXTENDS StrictJSON, WireDocuments, ProblemDocuments

SampleTexts == {<<"lbrace", "a", "colon", "lbracket", "rbracket", "comma", "b", "colon", "1", "rbrace">>,
                <<"lbracket", "lbrace", "a", "colon", "1", "rbrace", "rbracket">>}

JSONParked ==
  /\ reader = "response" /\ text = <<>> /\ declared = -1 /\ bytes = <<>>
  /\ outcome = "parked" /\ edits = 0 /\ disturbed = FALSE
  /\ cursor = 1 /\ frames = <<>> /\ awaits = "value"

GrantParked ==
  /\ stage = "parked" /\ doc = PlainGrant /\ skew = 0 /\ offset = 0 /\ changed = 0
  /\ stored = NoSession /\ keyRecord = GeneratedKey
  /\ caller = [jkt |-> "own", platform |-> "web", sound |-> TRUE]

ProblemParked ==
  /\ answer = Canonical("session_expired", "absent")
  /\ attempt = "again" /\ flaws = 0 /\ reaction = "parked"

Init ==
  \/ jsonInit /\ GrantParked /\ ProblemParked
  \/ grantInit /\ JSONParked /\ ProblemParked
  \/ problemInit /\ JSONParked /\ GrantParked

Next ==
  \/ jsonNext /\ UNCHANGED <<grantVars, problemVars>>
  \/ grantNext /\ UNCHANGED <<jsonVars, problemVars>>
  \/ problemNext /\ UNCHANGED <<jsonVars, grantVars>>

Spec == Init /\ [][Next]_<<jsonVars, grantVars, problemVars>>
=============================================================================
