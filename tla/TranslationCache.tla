-------------------------- MODULE TranslationCache --------------------------
(***************************************************************************)
(* What run_6502 promises the dispatcher in the default build, where the   *)
(* caches are formatted at power-on: a map from guest PCs to native code   *)
(* that only grows as long as the power is on.                             *)
(*                                                                         *)
(* A translation appears as a whole, at addresses nothing else occupies;   *)
(* then the PCs it covers are entered one at a time, each at once.  A PC   *)
(* that is entered, or left to the interpreter, stays so, and none gets a  *)
(* second translation of its own.                                          *)
(***************************************************************************)
CONSTANT Pc

VARIABLES
  on,         \* is the console switched on?
  held,       \* [at, pc]: the native code at address at translates pc
  entered,    \* those of them that dispatch_on_pc leads to
  declined    \* PCs left to the interpreter

vars == <<on, held, entered, declined>>

Settled(p) == p \in declined \/ \E x \in entered : x.pc = p

Init == on = FALSE /\ held = {} /\ entered = {} /\ declined = {}

PowerOn ==
  /\ ~on /\ on' = TRUE
  /\ held' = {} /\ entered' = {} /\ declined' = {}

PowerOff ==
  /\ on /\ on' = FALSE
  /\ UNCHANGED <<held, entered, declined>>

(* A translation that begins at p. *)
Translate(p) ==
  /\ on /\ ~Settled(p)
  /\ held \subseteq held'
  /\ \E x \in held' \ held : x.pc = p
  /\ \A x \in held, y \in held' \ held : x.at # y.at
  /\ UNCHANGED <<on, entered, declined>>

Enter(x) ==
  /\ on /\ x \in held /\ ~Settled(x.pc)
  /\ entered' = entered \cup {x}
  /\ UNCHANGED <<on, held, declined>>

Decline(p) ==
  /\ on /\ ~Settled(p)
  /\ declined' = declined \cup {p}
  /\ UNCHANGED <<on, held, entered>>

Next ==
  \/ PowerOn \/ PowerOff
  \/ \E p \in Pc : Translate(p) \/ Decline(p)
  \/ \E x \in held : Enter(x)

Spec == Init /\ [][Next]_vars
=============================================================================
