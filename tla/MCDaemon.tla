------------------------------ MODULE MCDaemon ------------------------------
(***************************************************************************)
(* Daemons, part by part: a start and a stop of the programs, a packet     *)
(* that spreads, two daemons that show each other that they are reached.   *)
(* The parts share no state, so that each behaviour is one of one part and *)
(* the others stay as they begin.                                          *)
(***************************************************************************)
EXTENDS Startup, Flood, Keepalive

CONSTANTS o, a, b, t, near, far

\* Four systems in a ring.
Ring == {<<o, a>>, <<a, o>>, <<o, b>>, <<b, o>>, <<a, t>>, <<t, a>>, <<b, t>>, <<t, b>>}

VARIABLE part
daemon == <<part, processes, flood, keepalives>>

Init ==
  /\ part \in {"startup", "flood", "keepalive"}
  /\ StartupInit /\ FloodInit /\ KeepaliveInit

Next ==
  /\ UNCHANGED part
  /\ \/ part = "startup" /\ StartupNext /\ UNCHANGED <<flood, keepalives>>
     \/ part = "flood" /\ FloodNext /\ UNCHANGED <<processes, keepalives>>
     \/ part = "keepalive" /\ KeepaliveNext /\ UNCHANGED <<processes, flood>>

\* The fairness of each part, while it is the one.
Spec ==
  /\ Init /\ [][Next]_daemon
  /\ WF_processes(part = "startup" /\ Progress)
  /\ WF_flood(part = "flood" /\ Deliver)
  /\ \A n \in Daemons : WF_keepalives(part = "keepalive" /\ Receive(n))
  /\ WF_keepalives(part = "keepalive" /\ SendOutFrom(Near))
  /\ SF_keepalives(part = "keepalive" /\ SendOutFrom(Far))
=============================================================================
