------------------------------ MODULE SessionMap ------------------------------
(***************************************************************************)
(* What the router may rely on when it asks where a session lives          *)
(* (agentserve/state.py, SessionStore): a map that answers with what was   *)
(* written last or with nothing, and that may forget at any time.  What is *)
(* forgotten stays forgotten until it is written again.  This is the map   *)
(* of module Gateway, which lets homes disappear without saying why.       *)
(***************************************************************************)
CONSTANTS Sessions, Values, NoValue

VARIABLES
  known,   \* what the map answers for each session
  latest   \* the last value written for each session

Init ==
  /\ known = [s \in Sessions |-> NoValue]
  /\ latest = [s \in Sessions |-> NoValue]

Forgetting(map, gone) == [s \in Sessions |-> IF s \in gone THEN NoValue ELSE map[s]]

\* The write for s reaches the map or is refused; others may be forgotten to
\* make room for it.
Write(s, v) ==
  /\ latest' = [latest EXCEPT ![s] = v]
  /\ \E gone \in SUBSET Sessions :
       known' = Forgetting([known EXCEPT ![s] = v], gone)

Forget ==
  /\ \E gone \in SUBSET Sessions : known' = Forgetting(known, gone)
  /\ UNCHANGED latest

\* The map starts anew.
Clear ==
  /\ known' = [s \in Sessions |-> NoValue]
  /\ latest' = [s \in Sessions |-> NoValue]

Next == Forget \/ Clear \/ \E s \in Sessions, v \in Values : Write(s, v)

Spec == Init /\ [][Next]_<<known, latest>>
=============================================================================
