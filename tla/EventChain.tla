----------------------------- MODULE EventChain -----------------------------
(***************************************************************************)
(* The two chains that a turn of the main loop walks: the event handlers   *)
(* of src/events.c and the tasks of src/tasks.c.  A block of a chain knows *)
(* its Next and its Prev, and the ends are NULL.  HandleEvent and          *)
(* PollTasks call the function of every block in turn and read the block's *)
(* Next when the function has returned.  A function may install and remove *)
(* functions, its own included (the widget and sound libraries do, when    *)
(* they are started and closed), and may run the loop's body again, so     *)
(* that walks nest.  Event is one object: a turn inside a handler          *)
(* overwrites the event that the handler was called with.                  *)
(*                                                                         *)
(* A block stands for its function: each is installed once at a time.      *)
(* Enabled is left out, as no code sets it to anything but TRUE.           *)
(***************************************************************************)
EXTENDS Naturals, Sequences

CONSTANTS
    Blocks,     \* blocks of memory; a freed one can be handed out again
    NULL,
    MaxDepth,   \* bound on the walks under way
    MaxOps      \* bound on installations and removals

ASSUME ChainAssumption ==
    /\ NULL \notin Blocks
    /\ MaxDepth \in Nat /\ MaxOps \in Nat

VARIABLES
    first, last,    \* EventHandlers and LastEventHandler, TaskList and LastTask
    next, prev,     \* of every block
    live,           \* the blocks that are allocated
    home,           \* the chain each was allocated for
    event,          \* Event->Type # EV_NOTHING
    stack,          \* the walks under way, the innermost last
    lost,           \* a walk has read a block that was freed
    ops,
    stamp, count    \* history: every installation has a number

vars == <<first, last, next, prev, live, home, event, stack, lost, ops, stamp, count>>
heap == <<next, prev, live, home, stamp, count>>
ends == <<first, last>>

Chains == {"handlers", "tasks"}

(* A walk: the block p whose function it has called.  The rest is history: *)
(* the installation p was, those it has called, whether p was removed      *)
(* since, and whether the event was consumed by a handler that this walk   *)
(* called or was overwritten by a turn inside one.                         *)
Walks == [c : Chains, p : Blocks, id : Nat, seen : SUBSET Nat,
          removed : BOOLEAN, consumed : BOOLEAN, nested : BOOLEAN]

Depth == Len(stack)
Top == stack[Depth]
Below == SubSeq(stack, 1, Depth - 1)

Init ==
    /\ first = [c \in Chains |-> NULL] /\ last = [c \in Chains |-> NULL]
    /\ next = [b \in Blocks |-> NULL] /\ prev = [b \in Blocks |-> NULL]
    /\ live = {} /\ home = [b \in Blocks |-> "handlers"]
    /\ event = FALSE /\ stack = <<>> /\ lost = FALSE /\ ops = 0
    /\ stamp = [b \in Blocks |-> 0] /\ count = 0

-----------------------------------------------------------------------------
(* Mutant: the block goes in front of the chain. *)
InstallFirst(c, b) ==
    /\ ~ lost /\ ops < MaxOps
    /\ b \notin live
    /\ live' = live \cup {b} /\ home' = [home EXCEPT ![b] = c]
    /\ next' = [next EXCEPT ![b] = first[c]]
    /\ prev' = [x \in Blocks |-> IF x = b THEN NULL ELSE IF x = first[c] THEN b ELSE prev[x]]
    /\ first' = [first EXCEPT ![c] = b]
    /\ last' = IF first[c] = NULL THEN [last EXCEPT ![c] = b] ELSE last
    /\ count' = count + 1 /\ stamp' = [stamp EXCEPT ![b] = count + 1]
    /\ ops' = ops + 1
    /\ UNCHANGED <<event, stack, lost>>

(* InstallEventHandler, InstallTask. *)
Install(c, b) ==
    /\ ~ lost /\ ops < MaxOps
    /\ b \notin live
    /\ live' = live \cup {b} /\ home' = [home EXCEPT ![b] = c]
    /\ prev' = [prev EXCEPT ![b] = last[c]]
    /\ next' = [x \in Blocks |-> IF x = b THEN NULL ELSE IF x = last[c] THEN b ELSE next[x]]
    /\ first' = IF first[c] = NULL THEN [first EXCEPT ![c] = b] ELSE first
    /\ last' = [last EXCEPT ![c] = b]
    /\ count' = count + 1 /\ stamp' = [stamp EXCEPT ![b] = count + 1]
    /\ ops' = ops + 1
    /\ UNCHANGED <<event, stack, lost>>

(* What becomes of the walks when b is freed. *)
Noted(b) ==
    [k \in 1 .. Depth |-> [stack[k] EXCEPT !.removed = @ \/ stack[k].p = b]]

(* Mutant: the next block is not told of its new neighbour. *)
RemoveOneWay(b) ==
    LET c == home[b] IN
    /\ ~ lost /\ ops < MaxOps
    /\ b \in live
    /\ live' = live \ {b}
    /\ last' = IF next[b] = NULL THEN [last EXCEPT ![c] = prev[b]] ELSE last
    /\ next' = [x \in Blocks |-> IF x = prev[b] THEN next[b] ELSE next[x]]
    /\ first' = IF prev[b] = NULL THEN [first EXCEPT ![c] = next[b]] ELSE first
    /\ stack' = Noted(b)
    /\ ops' = ops + 1
    /\ UNCHANGED <<prev, home, event, lost, stamp, count>>

(* RemoveEventHandler, RemoveTask: unlinked and freed, whoever is in it. *)
Remove(b) ==
    LET c == home[b] IN
    /\ ~ lost /\ ops < MaxOps
    /\ b \in live
    /\ live' = live \ {b}
    /\ prev' = [x \in Blocks |-> IF x = next[b] THEN prev[b] ELSE prev[x]]
    /\ last' = IF next[b] = NULL THEN [last EXCEPT ![c] = prev[b]] ELSE last
    /\ next' = [x \in Blocks |-> IF x = prev[b] THEN next[b] ELSE next[x]]
    /\ first' = IF prev[b] = NULL THEN [first EXCEPT ![c] = next[b]] ELSE first
    /\ stack' = Noted(b)
    /\ ops' = ops + 1
    /\ UNCHANGED <<home, event, lost, stamp, count>>

-----------------------------------------------------------------------------
NewWalk(c) ==
    [c |-> c, p |-> first[c], id |-> stamp[first[c]], seen |-> {stamp[first[c]]},
     removed |-> FALSE, consumed |-> FALSE, nested |-> FALSE]

(* The dispatches under way lose the event they are about. *)
Overwritten ==
    [k \in 1 .. Depth |-> [stack[k] EXCEPT !.nested = @ \/ stack[k].c = "handlers"]]

(* PollEvents, or a handler that assigns Event and calls HandleEvent       *)
(* itself (main.c, Alt-X), with something in Event.                        *)
HandleEvent ==
    /\ ~ lost /\ Depth < MaxDepth
    /\ event' = TRUE
    /\ stack' = IF first["handlers"] = NULL THEN Overwritten
                ELSE Append(Overwritten, NewWalk("handlers"))
    /\ UNCHANGED <<ends, heap, lost, ops>>

(* PollEvents without any input. *)
HandleNothing ==
    /\ ~ lost
    /\ event' = FALSE
    /\ stack' = Overwritten
    /\ UNCHANGED <<ends, heap, lost, ops>>

PollTasks ==
    /\ ~ lost /\ Depth < MaxDepth
    /\ first["tasks"] # NULL
    /\ stack' = Append(stack, NewWalk("tasks"))
    /\ UNCHANGED <<ends, heap, event, lost, ops>>

(* A handler clears the event it was called with. *)
Consume ==
    /\ ~ lost /\ stack # <<>> /\ Top.c = "handlers"
    /\ event' = FALSE
    /\ stack' = [stack EXCEPT ![Depth].consumed = TRUE]
    /\ UNCHANGED <<ends, heap, lost, ops>>

(* The function returns.  A dispatch ends if nothing is left in Event,     *)
(* which it tests before it reads the block.                               *)
Over == Top.c = "handlers" /\ ~ event

Stopped ==
    /\ ~ lost /\ stack # <<>>
    /\ Over
    /\ stack' = Below
    /\ UNCHANGED <<ends, heap, event, lost, ops>>

(* The block was freed in the meantime: what is read is undefined. *)
Astray ==
    /\ ~ lost /\ stack # <<>>
    /\ ~ Over /\ Top.removed
    /\ lost' = TRUE
    /\ UNCHANGED <<ends, heap, event, stack, ops>>

(* Mutant: the walk ends before the block it finds at the end. *)
StepShort ==
    LET n == next[Top.p] IN
    /\ ~ lost /\ stack # <<>>
    /\ ~ Over /\ ~ Top.removed
    /\ stack' = IF n = NULL \/ n = last[Top.c] THEN Below
                ELSE [stack EXCEPT ![Depth].p = n, ![Depth].id = stamp[n],
                                   ![Depth].seen = @ \cup {stamp[n]}]
    /\ UNCHANGED <<ends, heap, event, lost, ops>>

Step ==
    LET n == next[Top.p] IN
    /\ ~ lost /\ stack # <<>>
    /\ ~ Over /\ ~ Top.removed
    /\ stack' = IF n = NULL THEN Below
                ELSE [stack EXCEPT ![Depth].p = n, ![Depth].id = stamp[n],
                                   ![Depth].seen = @ \cup {stamp[n]}]
    /\ UNCHANGED <<ends, heap, event, lost, ops>>

Next ==
    \/ \E b \in Blocks : Remove(b) \/ \E c \in Chains : Install(c, b)
    \/ HandleEvent \/ HandleNothing \/ PollTasks \/ Consume
    \/ Stopped \/ Astray \/ Step

Spec == Init /\ [][Next]_vars

-----------------------------------------------------------------------------
TypeOK ==
    /\ first \in [Chains -> Blocks \cup {NULL}] /\ last \in [Chains -> Blocks \cup {NULL}]
    /\ next \in [Blocks -> Blocks \cup {NULL}] /\ prev \in [Blocks -> Blocks \cup {NULL}]
    /\ live \subseteq Blocks /\ home \in [Blocks -> Chains]
    /\ event \in BOOLEAN /\ lost \in BOOLEAN
    /\ stack \in Seq(Walks) /\ Depth <= MaxDepth
    /\ ops \in Nat /\ count \in Nat /\ stamp \in [Blocks -> 0 .. count]

Members(c) == {b \in live : home[b] = c}

(* b is followed in its chain by the one that was installed next of those  *)
(* that are left.                                                          *)
FollowedInOrder(b) ==
    /\ next[b] = NULL => b = last[home[b]]
    /\ next[b] # NULL =>
          /\ next[b] \in Members(home[b]) /\ prev[next[b]] = b
          /\ stamp[b] < stamp[next[b]]
    /\ \A x \in Members(home[b]) :
          stamp[b] < stamp[x] => next[b] # NULL /\ stamp[next[b]] <= stamp[x]

PrecededInOrder(b) ==
    /\ prev[b] = NULL => b = first[home[b]]
    /\ prev[b] # NULL => prev[b] \in Members(home[b]) /\ next[prev[b]] = b

EndsKnown(c) ==
    /\ first[c] = NULL <=> Members(c) = {}
    /\ last[c] = NULL <=> Members(c) = {}
    /\ first[c] # NULL => /\ first[c] \in Members(c) /\ prev[first[c]] = NULL
                          /\ \A x \in Members(c) : stamp[first[c]] <= stamp[x]
    /\ last[c] # NULL => last[c] \in Members(c) /\ next[last[c]] = NULL

(* Both chains hold what was installed and not removed, forwards and       *)
(* backwards, in the order of installation, whatever is removed from where *)
(* and however freed blocks are handed out again (events.c:56-102,         *)
(* tasks.c:27-59).                                                         *)
ChainsInOrder ==
    /\ \A b \in live : FollowedInOrder(b) /\ PrecededInOrder(b)
    /\ \A c \in Chains : EndsKnown(c)

(* A walk gets into freed memory in one way only: the function it had      *)
(* called was removed before it returned.  Any other block may be removed, *)
(* at any depth, the one the walk will go to next included: that Next is   *)
(* read late is what makes this true (events.c:176-187, where the line     *)
(* that read it early is commented out).                                   *)
OnlyOwnRemovalIsFatal ==
    /\ lost => stack # <<>> /\ Top.removed
    /\ \A k \in 1 .. Depth :
          LET w == stack[k] IN
          ~ w.removed => w.p \in live /\ home[w.p] = w.c /\ stamp[w.p] = w.id

(* A walk that returns has called all that are in its chain by then, those *)
(* installed during it included, but for two reasons: a handler consumed   *)
(* the event, or a turn inside a handler overwrote it.  And it called none *)
(* that had been removed, nor any twice: it only goes to later             *)
(* installations (HandleEvent, PollTasks).                                 *)
CallsAll ==
    [][ /\ Len(stack') < Depth =>
              \/ Top.consumed \/ Top.nested
              \/ {stamp[b] : b \in Members(Top.c)} \subseteq Top.seen
        /\ (Len(stack') = Depth /\ Depth > 0 /\ Top.seen # stack'[Depth].seen) =>
              \A s \in stack'[Depth].seen \ Top.seen :
                 /\ \E b \in Members(Top.c) : stamp[b] = s
                 /\ \A t \in Top.seen : t < s ]_vars
=============================================================================
