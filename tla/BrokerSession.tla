---------------------------- MODULE BrokerSession ----------------------------
(***************************************************************************)
(* SessionManager of Capital Trader: one token for every coroutine that    *)
(* talks to Capital.com, renewed under a lock by whoever finds it missing  *)
(* or about to expire; and the life of a BrokerClient around one REST call.*)
(*                                                                         *)
(* The deployment has credentials: without them no client can be made.      *)
(* The process serves nobody before start() has logged in once, and ends    *)
(* if that fails, so a token is there from the beginning.                  *)
(***************************************************************************)
EXTENDS Integers, FiniteSets

CONSTANTS
  Calls,      \* REST calls of the API's routes that may be under way at once
  Feed,       \* the coroutine that connects the websocket
  None,
  MaxMishaps  \* failed calls and writes, crashes, lost connections (bound)

Callers == Calls \cup {Feed}

ASSUME SessionAssumption ==
  /\ Feed \notin Calls
  /\ None \notin Callers
  /\ MaxMishaps \in Nat

VARIABLES
  token,    \* "fresh", or "due": less than five minutes left
  lock,     \* the caller that holds session_manager.lock
  at,       \* where each caller is
  mishaps   \* how much of the bound is used up

session == <<token, lock, at>>

Places == {"idle", "waiting", "login", "inside"}

Mishap == mishaps < MaxMishaps /\ mishaps' = mishaps + 1

SessionInit ==
  /\ token = "fresh"
  /\ lock = None
  /\ at = [c \in Callers |-> "idle"]
  /\ mishaps = 0

Move(c, place) == at' = [at EXCEPT ![c] = place]

(* ensure_valid is called. *)
Ask(c) == at[c] = "idle" /\ Move(c, "waiting")

(* Mutant: the token is renewed without taking the lock. *)
EnterUnlocked(c) ==
  /\ at[c] = "waiting"
  /\ IF token = "fresh"
     THEN Move(c, "inside") /\ UNCHANGED lock
     ELSE Move(c, "login") /\ lock' = c
  /\ UNCHANGED token

(* The lock is taken, and only then the token is looked at. *)
Enter(c) ==
  /\ at[c] = "waiting" /\ lock = None
  /\ IF token = "fresh"
     THEN Move(c, "inside") /\ UNCHANGED lock
     ELSE Move(c, "login") /\ lock' = c
  /\ UNCHANGED token

LoginSucceeds(c) ==
  /\ at[c] = "login"
  /\ token' = "fresh"
  /\ lock' = None
  /\ Move(c, "inside")

(* The answer is an error, or none: the caller gets the exception.          *)
LoginFails(c) ==
  /\ at[c] = "login"
  /\ lock' = None
  /\ Move(c, "idle")
  /\ UNCHANGED token

(* The REST call of a client is answered or fails, and __aexit__ closes the *)
(* HTTP session.                                                           *)
Leave(c) ==
  /\ at[c] = "inside"
  /\ Move(c, "idle")
  /\ UNCHANGED <<token, lock>>

(* Time passes. *)
TokenAges ==
  /\ token = "fresh"
  /\ token' = "due"
  /\ UNCHANGED <<lock, at>>

-----------------------------------------------------------------------------
SessionTypeOK ==
  /\ token \in {"fresh", "due"}
  /\ lock \in Callers \cup {None}
  /\ at \in [Callers -> Places]
  /\ mishaps \in 0..MaxMishaps

(* Nobody logs in while another does, or with a token that is still good:   *)
(* callers that waited for the lock see the token its holder has fetched.  *)
LoginsNeeded ==
  \A c \in Callers : at[c] = "login" => lock = c /\ token # "fresh"
=============================================================================
