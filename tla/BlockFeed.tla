----------------------------- MODULE BlockFeed -----------------------------
(***************************************************************************)
(* What the block watcher promises to its block handler, whatever the      *)
(* fetching jobs, the announcer and the channel between them do: the       *)
(* handler is called with pairs of adjacent blocks, each pair once, in the *)
(* order of the direction, one call at a time, and once the watcher is     *)
(* asked to close at most one more call ends.                              *)
(***************************************************************************)
EXTENDS Integers

CONSTANTS
  Blocks,        \* heights of the chain
  LowestHeight   \* the last height of a run backward

VARIABLES
  backward,   \* the direction of the run
  frontier,   \* furthest height that reached the handler loop, 0 if none did
  handling,   \* a handler call is running
  phase       \* "open", "closing" (asked to close), "last" (the call that is
              \* running is the last one) or "ended"

feedVars == <<backward, frontier, handling, phase>>

Onward(h) == IF backward THEN h - 1 ELSE h + 1

InReach(h) == backward => h >= LowestHeight

FeedInit ==
  /\ backward \in BOOLEAN
  /\ frontier = 0
  /\ handling = FALSE
  /\ phase = "open"

\* The first block is only remembered: a pair needs two.
First ==
  /\ frontier = 0
  /\ phase \in {"open", "closing"}
  /\ frontier' \in {h \in Blocks : InReach(h)}
  /\ UNCHANGED <<backward, handling, phase>>

\* The handler is called with the pair of frontier and the height after it.
Handle ==
  /\ frontier # 0
  /\ ~handling
  /\ phase \in {"open", "closing"}
  /\ Onward(frontier) \in Blocks
  /\ InReach(Onward(frontier))
  /\ frontier' = Onward(frontier)
  /\ handling' = TRUE
  /\ phase' = IF phase = "closing" THEN "last" ELSE phase
  /\ UNCHANGED backward

Finish ==
  /\ handling
  /\ handling' = FALSE
  /\ phase' = IF phase = "last" THEN "ended" ELSE phase
  /\ UNCHANGED <<backward, frontier>>

\* The handler fails, or the chain cannot be reached at start: the end.
Fail ==
  /\ handling \/ frontier = 0
  /\ phase # "ended"
  /\ handling' = FALSE
  /\ phase' = "ended"
  /\ UNCHANGED <<backward, frontier>>

AskToClose ==
  /\ phase = "open"
  /\ phase' = IF handling THEN "last" ELSE "closing"
  /\ UNCHANGED <<backward, frontier, handling>>

Stop ==
  /\ phase = "closing"
  /\ phase' = "ended"
  /\ UNCHANGED <<backward, frontier, handling>>

FeedNext ==
  \/ First
  \/ Handle
  \/ Finish
  \/ Fail
  \/ AskToClose
  \/ Stop

FeedSpec == FeedInit /\ [][FeedNext]_feedVars

=============================================================================
