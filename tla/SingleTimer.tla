---------------------------- MODULE SingleTimer ----------------------------
(***************************************************************************)
(* What the time tracker promises a user about the session log in D1: at   *)
(* most one session is open, a session is opened once, and a session that  *)
(* was closed never becomes open again.  Stopping and starting may be      *)
(* fused into one step (the "switch").  UserHub implements this            *)
(* specification whatever interleaves with it; see UserHub!TimerPromise.   *)
(***************************************************************************)
EXTENDS Naturals

CONSTANTS Sessions,   \* the identities a session may have
          None        \* "no session is open"

VARIABLES open,       \* the open session, or None
          done        \* the sessions that were opened and closed

tvars == <<open, done>>

TimerInit == open = None /\ done = {}

Fresh(s) == s # open /\ s \notin done

(* A session opens; none was open. *)
Start == /\ open = None
         /\ \E s \in Sessions : Fresh(s) /\ open' = s
         /\ UNCHANGED done

(* The open session closes. *)
Stop == /\ open # None
        /\ open' = None
        /\ done' = done \cup {open}

(* The open session closes and another opens, in one step. *)
Switch == /\ open # None
          /\ \E s \in Sessions : Fresh(s) /\ open' = s
          /\ done' = done \cup {open}

TimerNext == Start \/ Stop \/ Switch

TimerSpec == TimerInit /\ [][TimerNext]_tvars
=============================================================================
