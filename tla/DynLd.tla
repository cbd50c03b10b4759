------------------------------- MODULE DynLd --------------------------------
(***************************************************************************)
(* The loader of programs and libraries, src/dynld.c.  A library is loaded *)
(* once and counted; what it exports is linked into those that load it.    *)
(* Closing only marks an application: DynLdTCP, a task of the main loop,   *)
(* releases its libraries and frees it.  A Main is the application's own   *)
(* code, runs inside DynLdRunEx, and may run the main loop, and so start,  *)
(* close and break others before it has returned.                          *)
(*                                                                         *)
(* Applications is the sequence that list.c implements (module CircList):  *)
(* its last member is Applications->Last.  A library exports one symbol,   *)
(* named like the library.                                                 *)
(***************************************************************************)
EXTENDS Integers, FiniteSets, SequencesExt

CONSTANTS
    Files,      \* the programs and libraries on the disk
    Libs,       \* the libraries among them, which are their UIDs as well
    Needs,      \* the Libs array of every file
    Imports,    \* the libraries whose symbols a file imports
    Anonymous,  \* the libraries that export with SYSEXPORT, for no application
    Blocks,     \* TApplication blocks; a freed one can be handed out again
    NULL,
    Word,       \* 2^32, where Users wraps
    MaxFrames,  \* bound on the DynLdRunEx under way
    MaxOps      \* bound on what the user and applications ask for

ASSUME DynLdAssumption ==
    /\ Libs \subseteq Files /\ Anonymous \subseteq Libs
    /\ Needs \in [Files -> Seq(Libs)]
    /\ Imports \in [Files -> SUBSET Libs]
    /\ IsFiniteSet(Blocks) /\ NULL \notin Blocks \cup Files
    /\ {Word, MaxFrames, MaxOps} \subseteq Nat /\ Word > 1

VARIABLES
    ld,         \* apps: Applications; app: the blocks; sym: Symbols
    stack,      \* the calls of DynLdRunEx under way, the innermost last
    up,         \* startup is over: the libraries of the registry are loaded
    ret,        \* what a DynLdRunEx called by LoadLibrary has just returned
    GSExit,
    ops,
    direct,     \* history: how often the kernel itself has loaded a library
    links,      \* history: the blocks whose code a block was linked to
    dangling,   \* history: the blocks that had one of these freed under them
    late        \* history: the libraries counted when they were closed already,
                \* or more often than Users can tell

vars == <<ld, stack, up, ret, GSExit, ops, direct, links, dangling, late>>
code == <<links, dangling, late>>

AppRecords ==
    [file : Files \cup {NULL}, state : {"free", "loading", "starting", "running", "tofree"},
     users : 0 .. Word - 1, host : Blocks \cup {NULL}]

Blank == [file |-> NULL, state |-> "free", users |-> 0, host |-> NULL]

(* A call: the block it fills, the next library, and whether it is in the  *)
(* libraries or in Main.  gone is history: the block was freed.            *)
Frames == [b : Blocks, i : Nat, pc : {"libs", "main"}, gone : BOOLEAN]

(* What the loader has in memory. *)
Systems ==
    [apps : Seq(Blocks), app : [Blocks -> AppRecords],
     sym : [Libs -> [at : Blocks \cup {NULL}, own : Blocks \cup {NULL}]]]

NoSymbol == [at |-> NULL, own |-> NULL]

Depth == Len(stack)
Top == stack[Depth]
Below == SubSeq(stack, 1, Depth - 1)

Init ==
    /\ ld = [apps |-> <<>>, app |-> [b \in Blocks |-> Blank], sym |-> [s \in Libs |-> NoSymbol]]
    /\ stack = <<>> /\ up = FALSE /\ ret = "none"
    /\ GSExit = FALSE /\ ops = 0
    /\ direct = [l \in Libs |-> 0]
    /\ links = [b \in Blocks |-> {}] /\ dangling = {} /\ late = {}

-----------------------------------------------------------------------------
(* A walk that starts at Last. *)
FromLast(s) == IF s = <<>> THEN <<>> ELSE <<Last(s)>> \o Front(s)

(* Mutant: the walk goes from the head to where Last is. *)
VisitedShort(s, rm) == Front(s)

(* What "do ... while ( a != Applications->Last )" visits, from Last, when *)
(* it removes what is in rm: once Last is removed it stops at the item     *)
(* that is Last then, and never visits that one.                           *)
Visited(s, rm) ==
    IF s # <<>> /\ Last(s) \in rm
    THEN <<Last(s)>> \o SubSeq(s, 1, Len(s) - 2)
    ELSE FromLast(s)

InState(S, st) == {b \in Blocks : S.app[b].state = st}

GetLibrary(S, id) ==
    LET scan == FromLast(S.apps)
        found == {k \in 1 .. Len(scan) : S.app[scan[k]].file = id}
    IN  IF found = {} THEN NULL ELSE scan[CHOOSE k \in found : \A j \in found : k <= j]

(* Mutant: the block is freed and stays in the list. *)
FreedInList(S, b) == [S EXCEPT !.app[b] = Blank]

(* The one value of F(v), for TLC to compute v once. *)
With(v, F(_)) == CHOOSE r \in {F(t) : t \in {v}} : TRUE

(* The list when all items in rm have been removed. *)
Without(s, rm) ==
    LET kept[k \in 0 .. Len(s)] ==
            IF k = 0 THEN <<>>
            ELSE IF s[k] \in rm THEN kept[k - 1] ELSE Append(kept[k - 1], s[k])
    IN  kept[Len(s)]

(* FreeApplication, and ListRemoveItem if it is in the list. *)
Freed(S, b) == [S EXCEPT !.apps = Without(@, {b}), !.app[b] = Blank]

FreeHostedApp(S, b) ==
    LET hosted == {x \in Blocks : S.app[x].host = b}
        freed == hosted \cap Range(Visited(S.apps, hosted))
    IN  [S EXCEPT !.apps = Without(@, freed),
                  !.app = [x \in Blocks |-> IF x \in freed THEN Blank ELSE @[x]]]

CloseApp(S, b) ==
    LET T == [FreeHostedApp(S, b) EXCEPT !.app[b].state = "tofree"]
        mine == {s \in Libs : T.sym[s].own = b}
    IN  IF mine = {} THEN T ELSE [T EXCEPT !.sym[CHOOSE s \in mine : TRUE] = NoSymbol]

(* Mutant: the library is closed by whoever releases it first. *)
UnLoadLibraryAtOnce(S, id) ==
    LET l == GetLibrary(S, id)
    IN  IF l = NULL THEN S ELSE CloseApp([S EXCEPT !.app[l].users = (@ - 1) % Word], l)

(* Mutant: Users is signed. *)
UnLoadLibrarySigned(S, id) ==
    LET l == GetLibrary(S, id)
        T == [S EXCEPT !.app[l].users = @ - 1]
    IN  IF l = NULL THEN S
        ELSE IF T.app[l].users = 0 THEN CloseApp(T, l) ELSE T

UnLoadLibrary(S, id) ==
    LET l == GetLibrary(S, id)
        T == [S EXCEPT !.app[l].users = (@ - 1) % Word]
    IN  IF l = NULL THEN S
        ELSE IF T.app[l].users = 0 THEN CloseApp(T, l) ELSE T

UnLoadLibraries(S, b) ==
    LET ids == Needs[S.app[b].file]
        after[k \in 0 .. Len(ids)] ==
            IF k = 0 THEN S
            ELSE With(after[k - 1], LAMBDA T : UnLoadLibrary(T, ids[k]))
    IN  after[Len(ids)]

Broken(S, b) ==
    With(CloseApp(S, b), LAMBDA T : With(UnLoadLibraries(T, b), LAMBDA U : Freed(U, b)))

-----------------------------------------------------------------------------
(* What is left of the calls when the blocks have become S. *)
Swept(st, S) ==
    [k \in 1 .. Len(st) |-> [st[k] EXCEPT !.gone = @ \/ S.app[st[k].b].state = "free"]]

Become(T) == \E S \in {T} :
    LET gone == {x \in Blocks : ld.app[x].state # "free" /\ S.app[x].state = "free"} IN
    /\ ld' = S
    /\ links' = [b \in Blocks |-> IF b \in gone THEN {} ELSE links[b] \ gone]
    /\ dangling' = (dangling \cup {b \in Blocks : links[b] \cap gone # {}}) \ gone
    /\ late' = late

(* DynLdRunEx begins: the block is filled in from the file's header. *)
Loading(f, host) == [Blank EXCEPT !.file = f, !.state = "loading", !.host = host]

Call(b, f, host) ==
    /\ ld.app[b].state = "free" /\ Depth < MaxFrames
    /\ ld' = [ld EXCEPT !.app[b] = Loading(f, host)]
    /\ stack' = Append(stack, [b |-> b, i |-> 1, pc |-> "libs", gone |-> FALSE])

(* The user's desktop, an application's callback, or its Main. *)
AppRuns ==
    /\ up /\ ret = "none" /\ ops < MaxOps
    /\ stack # <<>> => Top.pc = "main" /\ ~ Top.gone /\ ld.app[Top.b].file \notin Libs

(* Somebody runs a program, on its own or hosted by another, once startup  *)
(* has loaded a library.  A bound: a hosted application hosts none, not    *)
(* even by the Host of one that has outlived what was in its block before. *)
Run(b, f, host) ==
    /\ AppRuns /\ f \notin Libs
    /\ host # NULL => /\ ld.app[host].state \in {"starting", "running"}
                      /\ ld.app[host].host = NULL /\ ld.app[host].file \notin Libs
                      /\ \A x \in Blocks : ld.app[x].host # b
    /\ Call(b, f, host)
    /\ ops' = ops + 1
    /\ UNCHANGED <<up, ret, GSExit, direct, code>>

(* RegistryLoadLibraries: LoadLibrary from the kernel, at startup, before  *)
(* any program or task runs.                                               *)
Startup ==
    /\ ~ up
    /\ stack = <<>> /\ ret = "none" /\ ops < MaxOps

RegistryLoadLibrary(b, l) ==
    /\ Startup
    /\ GetLibrary(ld, l) = NULL
    /\ Call(b, l, NULL)
    /\ ops' = ops + 1
    /\ UNCHANGED <<up, ret, GSExit, direct, code>>

(* LoadLibrary finds it in the list, whatever its state. *)
Counted(id) ==
    LET l == GetLibrary(ld, id) IN
    /\ l # NULL
    /\ ld' = [ld EXCEPT !.app[l].users = (@ + 1) % Word]
    /\ late' = IF ld.app[l].state = "tofree" \/ ld.app[l].users + 1 = Word
               THEN late \cup {id} ELSE late

RegistryCountLibrary(l) ==
    /\ Startup
    /\ Counted(l)
    /\ direct' = [direct EXCEPT ![l] = @ + 1]
    /\ ops' = ops + 1
    /\ UNCHANGED <<stack, up, ret, GSExit, links, dangling>>

SystemUp ==
    /\ ~ up
    /\ stack = <<>> /\ ret = "none" /\ ld.apps # <<>>
    /\ up' = TRUE
    /\ UNCHANGED <<ld, stack, ret, GSExit, ops, direct, code>>

-----------------------------------------------------------------------------
AtLibs == stack # <<>> /\ Top.pc = "libs" /\ ret = "none"

Needed == Needs[ld.app[Top.b].file]

(* Mutant: a library that is there is not counted again. *)
CountLibraryOnce ==
    /\ AtLibs /\ Top.i <= Len(Needed)
    /\ GetLibrary(ld, Needed[Top.i]) # NULL
    /\ stack' = [stack EXCEPT ![Depth].i = @ + 1]
    /\ UNCHANGED <<ld, up, ret, GSExit, ops, direct, code>>

(* LoadLibrary for the next of Libs: it is in the list; or it is loaded by *)
(* another DynLdRunEx; or its file is missing.                             *)
CountLibrary ==
    /\ AtLibs /\ Top.i <= Len(Needed)
    /\ Counted(Needed[Top.i])
    /\ stack' = [stack EXCEPT ![Depth].i = @ + 1]
    /\ UNCHANGED <<up, ret, GSExit, ops, direct, links, dangling>>

LoadLibrary(b) ==
    /\ AtLibs /\ Top.i <= Len(Needed)
    /\ GetLibrary(ld, Needed[Top.i]) = NULL
    /\ Call(b, Needed[Top.i], NULL)
    /\ UNCHANGED <<up, ret, GSExit, ops, direct, code>>

LibraryMissing ==
    /\ AtLibs /\ Top.i <= Len(Needed)
    /\ GetLibrary(ld, Needed[Top.i]) = NULL
    /\ ret' = "null"
    /\ UNCHANGED <<ld, stack, up, GSExit, ops, direct, code>>

(* What DynLdRunEx answers matters to a LoadLibrary only. *)
Answer(r) == ret' = IF Below # <<>> /\ Below[Depth - 1].pc = "libs" THEN r ELSE "none"

LibraryLoaded ==
    /\ stack # <<>> /\ ret = "ok"
    /\ ret' = "none"
    /\ stack' = [stack EXCEPT ![Depth].i = @ + 1]
    /\ UNCHANGED <<ld, up, GSExit, ops, direct, code>>

(* One library is missing: the block is freed as it is, and those that     *)
(* were counted for it before stay counted.                                *)
LibraryFailed ==
    /\ stack # <<>> /\ ret = "null"
    /\ Become(Freed(ld, Top.b))
    /\ stack' = Below
    /\ Answer("null")
    /\ UNCHANGED <<up, GSExit, ops, direct>>

Resolved == \A s \in Imports[ld.app[Top.b].file] : ld.sym[s].at # NULL

(* The imports are linked, the application is in the list and its Main is  *)
(* about to be called.                                                     *)
Link ==
    /\ AtLibs /\ Top.i > Len(Needed)
    /\ Resolved
    /\ LET b == Top.b
           from == {ld.sym[s].at : s \in Imports[ld.app[b].file]}
       IN  /\ ld' = [ld EXCEPT !.apps = Append(@, b), !.app[b].state = "starting"]
           /\ links' = [links EXCEPT ![b] = from \cap Range(ld.apps)]
           /\ dangling' = IF from \subseteq Range(ld.apps) THEN dangling ELSE dangling \cup {b}
    /\ stack' = [stack EXCEPT ![Depth].pc = "main"]
    /\ UNCHANGED <<up, ret, GSExit, ops, direct, late>>

(* An import is unresolved: the libraries stay counted here, too. *)
Unresolved ==
    /\ AtLibs /\ Top.i > Len(Needed)
    /\ ~ Resolved
    /\ Become(Freed(ld, Top.b))
    /\ stack' = Below
    /\ Answer("null")
    /\ UNCHANGED <<up, GSExit, ops, direct>>

-----------------------------------------------------------------------------
AtMain == stack # <<>> /\ Top.pc = "main" /\ ~ Top.gone /\ ret = "none"

(* AddSymbol refuses a name it has. *)
AddSymbol(S, s, b) ==
    IF S.sym[s].at # NULL THEN S
    ELSE [S EXCEPT !.sym[s] = [at |-> b, own |-> IF s \in Anonymous THEN NULL ELSE b]]

(* Main has exported, if it is a library's, and says yes. *)
MainTrue ==
    /\ AtMain
    /\ LET b == Top.b
           f == ld.app[b].file
           S == IF f \in Libs THEN AddSymbol(ld, f, b) ELSE ld
       IN  ld' = [S EXCEPT !.app[b].state = "running", !.app[b].users = 1]
    /\ stack' = Below
    /\ Answer("ok")
    /\ direct' = IF Below = <<>> /\ ld.app[Top.b].file \in Libs
                 THEN [direct EXCEPT ![ld.app[Top.b].file] = @ + 1] ELSE direct
    /\ UNCHANGED <<up, GSExit, ops, code>>

(* It says no. *)
MainFalse ==
    /\ AtMain
    /\ Become(Broken(ld, Top.b))
    /\ stack' = Swept(Below, ld')
    /\ Answer("null")
    /\ UNCHANGED <<up, GSExit, ops, direct>>

-----------------------------------------------------------------------------
(* An application closes itself, in a callback or inside its Main. *)
Close(b) ==
    /\ AppRuns
    /\ ld.app[b].state \in {"starting", "running"} /\ ld.app[b].file \notin Libs
    /\ Become(CloseApp(ld, b))
    /\ stack' = Swept(stack, ld')
    /\ ops' = ops + 1
    /\ UNCHANGED <<up, ret, GSExit, direct>>

(* BreakApp: by the window of a console, or by the user from xsystem.  All *)
(* the calls under way are abandoned.                                      *)
BreakApp(b) ==
    /\ AppRuns
    /\ ld.app[b].state \in {"starting", "running", "tofree"} /\ ld.app[b].file \notin Libs
    /\ Become(Broken(ld, b))
    /\ stack' = <<>>
    /\ ops' = ops + 1
    /\ UNCHANGED <<up, ret, GSExit, direct>>

(* DynLdTCP for one application.  (The state it reads of the block it has  *)
(* just freed is taken to be what was there.)                              *)
Collect(W, b) ==
    IF W.jump THEN W
    ELSE CASE W.S.app[b].state = "tofree" ->
                 [W EXCEPT !.S = With(UnLoadLibraries(W.S, b), LAMBDA T : Freed(T, b))]
           [] W.S.app[b].state = "starting" /\ GSExit ->
                 [S |-> Broken(W.S, b), jump |-> TRUE]
           [] OTHER -> W

CollectAll(S, bs) ==
    LET after[k \in 0 .. Len(bs)] ==
            IF k = 0 THEN [S |-> S, jump |-> FALSE]
            ELSE With(after[k - 1], LAMBDA W : Collect(W, bs[k]))
    IN  after[Len(bs)]

(* The task; it changes nothing unless an application is closed or not     *)
(* started.                                                                *)
DynLdTCP ==
    /\ up /\ ret = "none"
    /\ stack # <<>> => Top.pc = "main" /\ ld.app[Top.b].file \notin Libs
    /\ ld.apps # <<>> /\ \E b \in Blocks : ld.app[b].state \in {"tofree", "starting"}
    /\ \E W \in {CollectAll(ld, Visited(ld.apps, InState(ld, "tofree")))} :
           /\ Become(W.S)
           /\ stack' = IF W.jump THEN <<>> ELSE Swept(stack, W.S)
    /\ UNCHANGED <<up, ret, GSExit, ops, direct>>

Quit ==
    /\ up /\ ~ GSExit
    /\ GSExit' = TRUE
    /\ UNCHANGED <<ld, stack, up, ret, ops, direct, code>>

(* The main loop has ended: every application is closed, whatever its      *)
(* state, and all lists are freed.                                         *)
ShutDownDynLd ==
    /\ up /\ GSExit /\ stack = <<>> /\ ret = "none"
    /\ ld' = [apps |-> <<>>, app |-> [b \in Blocks |-> Blank], sym |-> [s \in Libs |-> NoSymbol]]
    /\ ret' = "down"
    /\ UNCHANGED <<stack, up, GSExit, ops, direct, code>>

-----------------------------------------------------------------------------
User ==
    \/ \E b \in Blocks, f \in Files, h \in Blocks \cup {NULL} : Run(b, f, h)
    \/ \E b \in Blocks : Close(b) \/ BreakApp(b)
    \/ \E b \in Blocks, l \in Libs : RegistryLoadLibrary(b, l)
    \/ \E l \in Libs : RegistryCountLibrary(l)
    \/ Quit

Loader ==
    \/ CountLibrary \/ \E b \in Blocks : LoadLibrary(b)
    \/ LibraryMissing \/ LibraryLoaded \/ LibraryFailed
    \/ Link \/ Unresolved \/ MainTrue \/ MainFalse \/ SystemUp

Next == User \/ Loader \/ DynLdTCP \/ ShutDownDynLd

Spec == Init /\ [][Next]_vars

(* Loading goes on, every Main comes back, and the main loop runs its task *)
(* again and again.                                                        *)
FairSpec == Spec /\ WF_vars(Loader) /\ WF_vars(DynLdTCP)

-----------------------------------------------------------------------------
(* Type invariant.  Users, an unsigned long, stays one however libraries   *)
(* are counted and released (dynld.c, LoadLibrary and UnLoadLibrary).      *)
TypeOK ==
    /\ ld \in Systems
    /\ stack \in Seq(Frames) /\ Depth <= MaxFrames
    /\ ret \in {"none", "ok", "null", "down"}
    /\ {up, GSExit} \subseteq BOOLEAN /\ ops \in 0 .. MaxOps
    /\ direct \in [Libs -> Nat] /\ late \subseteq Libs
    /\ links \in [Blocks -> SUBSET Blocks] /\ dangling \subseteq Blocks

(* Every block is in Applications once or being loaded by one call, and a  *)
(* library is in the list once, however loads, failures, breaks and        *)
(* collections follow each other; the list is never emptied under          *)
(* DynLdTCP, which would go on in freed memory.                            *)
BlocksAccounted ==
    /\ \A i, j \in 1 .. Len(ld.apps) : ld.apps[i] = ld.apps[j] => i = j
    /\ \A b \in Blocks :
          /\ b \in Range(ld.apps) <=> ld.app[b].state \in {"starting", "running", "tofree"}
          /\ ld.app[b].state = "loading" <=> \E k \in 1 .. Depth : stack[k].b = b /\ stack[k].pc = "libs"
    /\ \A b, c \in Range(ld.apps) : ld.app[b].file \in Libs /\ ld.app[b].file = ld.app[c].file => b = c
    /\ (\E l \in Libs \ late : direct[l] > 0) /\ ret # "down" => ld.apps # <<>>

Holds(b, l) == ld.app[b].state # "free" /\ l \in Range(Needs[ld.app[b].file])

(* Those whose LoadLibrary(l) has been counted and not released. *)
Holders(l) ==
    {b \in Blocks : /\ Holds(b, l)
                    /\ \A k \in 1 .. Depth :
                          (stack[k].b = b /\ stack[k].pc = "libs")
                             => \E i \in 1 .. stack[k].i - 1 : Needs[ld.app[b].file][i] = l}

(* Users is never less than what holds the library, the kernel included,   *)
(* so that it is not closed under anybody; except when it was closed       *)
(* already as somebody counted it, see LinkedCodeIsThere, or when Users    *)
(* has wrapped (loads that fail leave it counted).                         *)
UsersCoverHolders ==
    \A b \in Blocks :
       LET l == ld.app[b].file IN
       (l \in Libs \ late /\ ld.app[b].state = "running")
          => ld.app[b].users >= Cardinality(Holders(l)) + direct[l]

(* What an application was linked to stays in memory as long as it runs.   *)
(* There are three ways out of it, and no fourth: the library was closed   *)
(* and not yet collected when a new program counted it, and was then       *)
(* collected under it (or Users has wrapped); it exports its symbols for   *)
(* no application, so that they are found after it is gone; or the program *)
(* imports from a library that it does not name in Libs, as nothing asks.  *)
LinkedCodeIsThere ==
    \A b \in Blocks :
       (ld.app[b].state \in {"starting", "running"} /\ b \in dangling)
          => \E l \in Imports[ld.app[b].file] :
                l \in late \cup Anonymous \/ l \notin Range(Needs[ld.app[b].file])

(* When an application is closed those it hosts are freed, except the one  *)
(* that is Last after another, at Last, was: the walk stops short of it.   *)
HostedFreedWithHost ==
    [][ \A b, x \in Blocks :
          ( /\ ld.app[b].state \in {"starting", "running"}
            /\ ld'.app[b].state \in {"tofree", "free"}
            /\ ld.app[x].host = b )
          => \/ ld'.app[x].state = "free"
             \/ /\ x = Last(ld'.apps)
                /\ \E y \in Blocks \ {x} : ld.app[y].host = b /\ ld'.app[y].state = "free" ]_vars

(* What is closed is freed by and by. *)
ClosedIsFreed ==
    \A b \in Blocks : (ld.app[b].state = "tofree") ~> (ld.app[b].state # "tofree")
=============================================================================
