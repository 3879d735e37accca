--------------------------- MODULE GameLifecycle ---------------------------
(***************************************************************************)
(* What a room promises its players, without clocks, timers, cycles,       *)
(* database calls or disposal: a session of games, one after the other.    *)
(* Each game has a number of rounds, which are played one at a time and in *)
(* order; a round is won by at most one player, who is paid the points of  *)
(* one cycle; the game is over after the last round; and the score board   *)
(* of the session keeps what was won when a new game begins.               *)
(***************************************************************************)
EXTENDS Integers

CONSTANT Players   \* everyone who may ever join

VARIABLES
  stage,    \* lobby, preparing, playing, between (rounds) or over
  played,   \* rounds begun in this game
  total,    \* rounds of this game
  board     \* points won in this session by each player in the room

vars == <<stage, played, total, board>>

Init == stage = "lobby" /\ played = 0 /\ total = 0 /\ board = [p \in {} |-> 0]

Joins(p) ==
  /\ p \in Players \ DOMAIN board
  /\ board' = [q \in DOMAIN board \cup {p} |-> IF q = p THEN 0 ELSE board[q]]
  /\ UNCHANGED <<stage, played, total>>

Leave(S) ==
  /\ S \subseteq DOMAIN board /\ S # {}
  /\ board' = [q \in DOMAIN board \ S |-> board[q]]
  /\ UNCHANGED <<stage, played, total>>

\* A first game, or another one instead of the one that is under way.
Prepare ==
  /\ stage' = "preparing" /\ played' = 0 /\ total' = 0
  /\ UNCHANGED board

Load ==
  /\ stage = "preparing" /\ played = 0
  /\ total' \in Nat \ {0}
  /\ UNCHANGED <<stage, played, board>>

BeginRound ==
  /\ stage \in {"preparing", "between"} /\ played < total
  /\ stage' = "playing" /\ played' = played + 1
  /\ UNCHANGED <<total, board>>

Win(p, points) ==
  /\ stage = "playing" /\ stage' = "between"
  /\ p \in DOMAIN board
  /\ board' = [board EXCEPT ![p] = @ + points]
  /\ UNCHANGED <<played, total>>

TimeOut ==
  /\ stage = "playing" /\ stage' = "between"
  /\ UNCHANGED <<played, total, board>>

Finish ==
  /\ stage = "between" /\ played = total
  /\ stage' = "over"
  /\ UNCHANGED <<played, total, board>>

Next ==
  \/ \E p \in Players: Joins(p) \/ \E points \in {2, 4, 6, 10}: Win(p, points)
  \/ \E S \in SUBSET Players: Leave(S)
  \/ Prepare \/ Load \/ BeginRound \/ TimeOut \/ Finish

Spec == Init /\ [][Next]_vars
=============================================================================
