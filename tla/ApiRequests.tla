----------------------------- MODULE ApiRequests ----------------------------
(***************************************************************************)
(* What the public write paths have in common: the verified agents they    *)
(* are about, and a bound on the requests that are made.  The modules that *)
(* extend this one model a request as an action that starts it, which      *)
(* takes one from the bound of its service, and an action per later        *)
(* transaction.                                                            *)
(***************************************************************************)
EXTENDS Naturals, FiniteSets

CONSTANTS Agents,   \* verified agents; a request about another is refused
          Loads     \* bounds: how many requests each service gets in a behaviour

Services == {"delegation", "vac", "event", "chain", "extension"}

ASSUME RequestsAssumption == Loads \subseteq [Services -> Nat]

VARIABLE left       \* the requests that are still to come

\* A request to the service arrives.
Ask(service) == left[service] > 0 /\ left' = [left EXCEPT ![service] = @ - 1]

=============================================================================
