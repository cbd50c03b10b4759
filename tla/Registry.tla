------------------------------ MODULE Registry ------------------------------
(***************************************************************************)
(* The registry of src/registry.c: a tree of named keys in memory, read    *)
(* from system/settings.dat when the system starts and written to it when  *)
(* somebody saves.  The keys of a directory are a ring (module ListLinks)  *)
(* and a path is looked up by walking one ring per name, from Last on:     *)
(* directories whatever the case of their letters, the last name exactly.  *)
(* At startup the entries of a directory are run one after the other, and  *)
(* what they run may change the registry under the walk.                   *)
(*                                                                         *)
(* A key is a number, its place in the file when it was read from there.   *)
(* Links (RKT_LINK) are left out: nothing outside of registry.c can make   *)
(* one.                                                                    *)
(***************************************************************************)
EXTENDS ListLinks, SequencesExt

CONSTANTS
    Names,      \* names of keys
    Fold(_),    \* what is left of a name when case is ignored
    Values,     \* what a key may hold; Nothing is RKT_NODATA
    Nothing,
    Defaults,   \* the registry a system without a file starts with: paths
    Startup,    \* the path of the entries to run
    MaxKey,     \* bound on the keys made between two starts
    MaxOps      \* bound on what applications do

(* A bound: keys lie at most two names deep. *)
Dirs == {<<n>> : n \in Names}
Paths == Dirs \cup {<<d, n>> : d \in Names, n \in Names}

(* The bound on keys leaves room for the root and the defaults. *)
ASSUME RegistryAssumption ==
    /\ NULL \notin 1 .. MaxKey /\ NULL \notin Names /\ Nothing \notin Values
    /\ MaxKey \in Nat /\ MaxOps \in Nat
    /\ Defaults \in Seq(Paths) /\ 1 + 2 * Len(Defaults) <= MaxKey
    /\ Startup \in Paths

VARIABLES
    reg,        \* the tree, see Trees
    file,       \* settings.dat: its keys in order, <<>> if there is none
    torn,       \* it was truncated, and not written to its end since
    saving,     \* SaveRegistry is under way
    up,         \* the system is running
    walk,       \* RegistryRunEntries
    wild,       \* something that was freed or never written has been read
    ops,
    where,      \* history: the key that a path was made or set for
    just,       \* history: the path that was set by the last step
    saved       \* history: what the registry was when it was last saved

vars == <<reg, file, torn, saving, up, walk, wild, ops, where, just, saved>>

Keys == 1 .. MaxKey
Root == 1
Pointers == Keys \cup {NULL}

(* made: the keys that have a block of their own.  Those read from a file  *)
(* lie in one array and stay readable (husks) when they are deleted.       *)
Trees ==
    [live : SUBSET Keys, made : SUBSET Keys, husks : SUBSET Keys, used : 0 .. MaxKey,
     name : [Keys -> Names \cup {NULL}], data : [Keys -> Values \cup {Nothing}],
     parent : [Keys -> Pointers], last : [Keys -> Pointers],
     next : [Keys -> Pointers], prev : [Keys -> Pointers]]

None == [k \in Keys |-> NULL]

(* MainKey as NRegistryInit makes it. *)
Bare == [live |-> {Root}, made |-> {}, husks |-> {}, used |-> Root, name |-> None,
         data |-> [k \in Keys |-> Nothing], parent |-> None, last |-> None,
         next |-> None, prev |-> None]

Ring(R, p) == [last |-> R.last[p], next |-> R.next, prev |-> R.prev]

WithRing(R, p, m) == [R EXCEPT !.last[p] = m.last, !.next = m.next, !.prev = m.prev]

Below(R, p) == {k \in R.live : R.parent[k] = p}

(* The keys of a directory in the order of a walk from Last. *)
Kids(R, p) == WalkAlong(R.last[p], R.next, Cardinality(Below(R, p)))

FirstIn(s, C) ==
    LET i == SelectInSeq(s, LAMBDA k : k \in C)
    IN  IF i = 0 THEN NULL ELSE s[i]

Child(R, p, n) == FirstIn(Kids(R, p), {k \in R.live : R.name[k] = n})

SubDir(R, p, n) == FirstIn(Kids(R, p), {k \in R.live : Fold(R.name[k]) = Fold(n)})

-----------------------------------------------------------------------------
ResolveKey(R, path) ==
    LET d == IF Len(path) = 1 THEN Root ELSE SubDir(R, Root, path[1])
    IN  IF d = NULL THEN NULL ELSE Child(R, d, Last(path))

(* NewKeyEx: it refuses a name the directory has. *)
NewKeyEx(R, p, n) ==
    LET k == R.used + 1 IN
    IF Child(R, p, n) # NULL THEN R
    ELSE [WithRing(R, p, LinkEnd(Ring(R, p), k)) EXCEPT
            !.used = k, !.live = @ \cup {k}, !.made = @ \cup {k},
            !.name[k] = n, !.parent[k] = p]

(* One name of GetOrCreateKeyEx: from key p to k, which is made if it is   *)
(* NULL; the tree and the key it has come to.                              *)
Enter(R, p, n, k) ==
    IF k # NULL THEN [reg |-> R, key |-> k]
    ELSE [reg |-> NewKeyEx(R, p, n), key |-> R.used + 1]

(* Mutant: a directory is looked for by its exact name. *)
GetOrCreateKeyExact(R, path) ==
    LET D == IF Len(path) = 1 THEN [reg |-> R, key |-> Root]
             ELSE Enter(R, Root, path[1], Child(R, Root, path[1]))
    IN  Enter(D.reg, D.key, Last(path), Child(D.reg, D.key, Last(path)))

GetOrCreateKey(R, path) ==
    LET D == IF Len(path) = 1 THEN [reg |-> R, key |-> Root]
             ELSE Enter(R, Root, path[1], SubDir(R, Root, path[1]))
    IN  Enter(D.reg, D.key, Last(path), Child(D.reg, D.key, Last(path)))

(* FreeKey: the key with all below it. *)
Under(R, k) == {x \in R.live : x = k \/ R.parent[x] = k}

FreeKey(R, k) ==
    [R EXCEPT !.live = @ \ Under(R, k), !.made = @ \ Under(R, k),
              !.husks = @ \cup (Under(R, k) \ R.made)]

(* Mutant: Last is moved on, not back. *)
DeleteKeyForward(R, k) ==
    LET m == Unlink(Ring(R, R.parent[k]), k) IN
    IF k \in {NULL, Root} THEN R
    ELSE FreeKey(WithRing(R, R.parent[k],
                   [m EXCEPT !.last = IF m.last # NULL /\ R.last[R.parent[k]] = k THEN k ELSE @]), k)

(* DeleteKeyEx: nothing happens to the root or to no key. *)
DeleteKey(R, k) ==
    IF k \in {NULL, Root} THEN R
    ELSE FreeKey(WithRing(R, R.parent[k], Unlink(Ring(R, R.parent[k]), k)), k)

-----------------------------------------------------------------------------
(* GenerateTmpId and WriteKey walk the tree in one order, each key in      *)
(* front of its own keys.                                                  *)
Order(R) ==
    <<Root>> \o FlattenSeq([i \in DOMAIN Kids(R, Root) |->
                              <<Kids(R, Root)[i]>> \o Kids(R, Kids(R, Root)[i])])

(* Mutant: Prev is written where LoadRegistry reads Next. *)
WrittenSwapped(R) ==
    LET o == Order(R)
        id(k) == IF k = NULL THEN 0 ELSE CHOOSE i \in DOMAIN o : o[i] = k
    IN  [i \in DOMAIN o |->
           [name |-> R.name[o[i]], data |-> R.data[o[i]], parent |-> id(R.parent[o[i]]),
            next |-> id(R.prev[o[i]]), prev |-> id(R.next[o[i]]), last |-> id(R.last[o[i]])]]

(* What WriteKey writes: pointers as the numbers of the keys, NULL as 0. *)
Written(R) ==
    LET o == Order(R)
        id(k) == IF k = NULL THEN 0 ELSE CHOOSE i \in DOMAIN o : o[i] = k
    IN  [i \in DOMAIN o |->
           [name |-> R.name[o[i]], data |-> R.data[o[i]], parent |-> id(R.parent[o[i]]),
            next |-> id(R.next[o[i]]), prev |-> id(R.prev[o[i]]), last |-> id(R.last[o[i]])]]

(* LoadRegistry: one array; of its keys only the root will be freed. *)
Loaded(f) ==
    LET all == 1 .. Len(f)
        key(i) == IF i = 0 THEN NULL ELSE i
    IN  [live |-> all, made |-> {Root}, husks |-> {}, used |-> Len(f),
         name |-> [k \in Keys |-> IF k \in all THEN f[k].name ELSE NULL],
         data |-> [k \in Keys |-> IF k \in all THEN f[k].data ELSE Nothing],
         parent |-> [k \in Keys |-> IF k \in all THEN key(f[k].parent) ELSE NULL],
         last |-> [k \in Keys |-> IF k \in all THEN key(f[k].last) ELSE NULL],
         next |-> [k \in Keys |-> IF k \in all THEN key(f[k].next) ELSE NULL],
         prev |-> [k \in Keys |-> IF k \in all THEN key(f[k].prev) ELSE NULL]]

DefaultTree ==
    LET upTo[i \in 0 .. Len(Defaults)] ==
            IF i = 0 THEN Bare ELSE GetOrCreateKey(upTo[i - 1], Defaults[i]).reg
    IN  upTo[Len(Defaults)]

(* All there is to see in a registry: names, data and order. *)
Listing(R, p) == [i \in DOMAIN Kids(R, p) |-> <<R.name[Kids(R, p)[i]], R.data[Kids(R, p)[i]]>>]

Contents(R) ==
    [i \in DOMAIN Kids(R, Root) |->
       LET k == Kids(R, Root)[i] IN <<R.name[k], R.data[k], Listing(R, k)>>]

-----------------------------------------------------------------------------
NoWalk == [on |-> FALSE, a |-> NULL, first |-> NULL, ran |-> {}, own |-> FALSE, spoilt |-> FALSE]

Nowhere == [p \in Paths |-> NULL]

Init ==
    /\ reg = DefaultTree
    /\ file = <<>> /\ torn = FALSE /\ saving = FALSE
    /\ up = TRUE /\ walk = NoWalk /\ wild = FALSE /\ ops = 0
    /\ where = Nowhere /\ just = <<>> /\ saved = <<>>

(* Applications run between the steps of the walk. *)
Acts == up /\ ~ wild /\ ~ saving /\ ops < MaxOps /\ ops' = ops + 1

(* The walk and the history when the tree becomes R. *)
Become(R) ==
    /\ reg' = R
    /\ walk' = IF walk.on
               THEN [walk EXCEPT !.own = @ \/ walk.a \notin R.live,
                                 !.spoilt = @ \/ walk.first \notin R.live]
               ELSE walk

Known(R, lost) == [p \in Paths |-> IF where[p] \in R.live \ lost THEN where[p] ELSE NULL]

Quiet == UNCHANGED <<file, torn, saving, up, wild, saved>>

(* KeySetText and the others: the key is made, if need be, and filled. *)
KeySetData(path, v) ==
    LET S == GetOrCreateKey(reg, path) IN
    /\ Acts /\ reg.used + Len(path) <= MaxKey
    /\ Become([S.reg EXCEPT !.data[S.key] = v])
    /\ where' = [where EXCEPT ![path] = S.key] /\ just' = path
    /\ Quiet

CreateKey(path) ==
    LET S == GetOrCreateKey(reg, path) IN
    /\ Acts /\ reg.used + Len(path) <= MaxKey
    /\ Become(S.reg)
    /\ where' = [where EXCEPT ![path] = S.key] /\ just' = path
    /\ Quiet

(* NewKey: the directory is made even if the name is refused. *)
NewKey(dir, n) ==
    LET S == GetOrCreateKey(reg, dir) IN
    /\ Acts /\ reg.used + Len(dir) < MaxKey
    /\ Become(NewKeyEx(S.reg, S.key, n))
    /\ where' = where /\ just' = <<>>
    /\ Quiet

DeleteKeyNamed(path) ==
    /\ Acts /\ ResolveKey(reg, path) # NULL
    /\ Become(DeleteKey(reg, ResolveKey(reg, path)))
    /\ where' = Known(reg', {}) /\ just' = <<>>
    /\ Quiet

(* RenameKey does not ask whether there is one of that name. *)
RenameKey(path, n) ==
    LET k == ResolveKey(reg, path) IN
    /\ Acts /\ k # NULL
    /\ Become([reg EXCEPT !.name[k] = n])
    /\ where' = Known(reg, Under(reg, k)) /\ just' = <<>>
    /\ Quiet

-----------------------------------------------------------------------------
(* SaveRegistry opens the file for writing, which empties it, and writes;  *)
(* the disk may be full, which it does not notice.                         *)
SaveBegin ==
    /\ Acts
    /\ saving' = TRUE /\ torn' = TRUE
    /\ UNCHANGED <<reg, file, up, walk, wild, where, just, saved>>

SaveEnd ==
    /\ saving /\ up
    /\ saving' = FALSE /\ torn' = FALSE
    /\ file' = Written(reg) /\ saved' = Contents(reg)
    /\ UNCHANGED <<reg, up, walk, wild, ops, where, just>>

DiskFull ==
    /\ saving /\ up
    /\ saving' = FALSE
    /\ UNCHANGED <<reg, file, torn, up, walk, wild, ops, where, just, saved>>

(* What LoadRegistry makes of the file; a torn one is read as if it were   *)
(* whole, so that what it finds is undefined.                              *)
Load ==
    /\ wild' = torn
    /\ reg' = IF torn THEN reg ELSE Loaded(file)
    /\ where' = Nowhere /\ just' = <<>>

Exists == file # <<>> \/ torn

(* RegistryReLoad: all keys in memory are freed, a walk's as well. *)
RegistryReLoad ==
    /\ Acts /\ Exists
    /\ Load
    /\ walk' = IF walk.on THEN [walk EXCEPT !.own = TRUE, !.spoilt = TRUE, !.a = NULL] ELSE walk
    /\ UNCHANGED <<file, torn, saving, up, saved>>

(* Power off, or the end of NRegistryUnInit, which has saved: what memory  *)
(* holds is gone.                                                          *)
Stop ==
    /\ up
    /\ up' = FALSE /\ saving' = FALSE /\ walk' = NoWalk
    /\ reg' = Bare /\ where' = Nowhere /\ just' = <<>>
    /\ UNCHANGED <<file, torn, wild, ops, saved>>

(* NRegistryInit; resetup asks for the defaults. *)
Start(resetup) ==
    /\ ~ up /\ ~ wild
    /\ up' = TRUE
    /\ IF Exists /\ ~ resetup THEN Load
       ELSE /\ reg' = DefaultTree /\ wild' = FALSE
            /\ where' = Nowhere /\ just' = <<>>
    /\ UNCHANGED <<file, torn, saving, walk, ops, saved>>

-----------------------------------------------------------------------------
(* RegistryRunEntries runs the first entry; a program is running when the  *)
(* step is over, until the next one.  (Every entry is run, although the    *)
(* indentation asks for those with a text only.)                           *)
RunEntries ==
    LET o == ResolveKey(reg, Startup)
        a == reg.next[reg.last[o]]
    IN
    /\ up /\ ~ wild /\ ~ saving /\ ~ walk.on
    /\ ops < MaxOps /\ ops' = ops + 1
    /\ o # NULL /\ reg.last[o] # NULL
    /\ walk' = [NoWalk EXCEPT !.on = TRUE, !.a = a, !.first = a, !.ran = {a}]
    /\ UNCHANGED <<reg, file, torn, saving, up, wild, where, just, saved>>

(* Mutant: the walk does not see that it is back at the first entry. *)
RunNextEndless ==
    LET n == reg.next[walk.a] IN
    /\ up /\ ~ wild /\ ~ saving /\ walk.on
    /\ walk.a \in reg.live \cup reg.husks /\ n \in reg.live
    /\ walk' = [walk EXCEPT !.a = n, !.ran = @ \cup {n}, !.own = FALSE]
    /\ UNCHANGED <<reg, file, torn, saving, up, wild, ops, where, just, saved>>

(* The program is back: a = a->Next, and the walk ends at the first entry. *)
RunNext ==
    LET n == reg.next[walk.a] IN
    /\ up /\ ~ wild /\ ~ saving /\ walk.on
    /\ walk.a \in reg.live \cup reg.husks /\ n # walk.first /\ n \in reg.live
    /\ walk' = [walk EXCEPT !.a = n, !.ran = @ \cup {n}, !.own = FALSE]
    /\ UNCHANGED <<reg, file, torn, saving, up, wild, ops, where, just, saved>>

RunOver ==
    /\ up /\ ~ wild /\ ~ saving /\ walk.on
    /\ walk.a \in reg.live \cup reg.husks /\ reg.next[walk.a] = walk.first
    /\ walk' = [walk EXCEPT !.on = FALSE]
    /\ UNCHANGED <<reg, file, torn, saving, up, wild, ops, where, just, saved>>

(* It reads the Next of a key that was freed, or goes on to one. *)
RunAstray ==
    /\ up /\ ~ wild /\ ~ saving /\ walk.on
    /\ \/ walk.a \notin reg.live \cup reg.husks
       \/ /\ walk.a \in reg.live \cup reg.husks
          /\ reg.next[walk.a] # walk.first /\ reg.next[walk.a] \notin reg.live
    /\ wild' = TRUE
    /\ UNCHANGED <<reg, file, torn, saving, up, walk, ops, where, just, saved>>

Next ==
    \/ \E p \in Paths : CreateKey(p) \/ DeleteKeyNamed(p)
    \/ \E p \in Paths, v \in Values \cup {Nothing} : KeySetData(p, v)
    \/ \E d \in Dirs, n \in Names : NewKey(d, n)
    \/ \E p \in Paths, n \in Names : RenameKey(p, n)
    \/ SaveBegin \/ SaveEnd \/ DiskFull \/ RegistryReLoad \/ Stop
    \/ \E resetup \in BOOLEAN : Start(resetup)
    \/ RunEntries \/ RunNext \/ RunOver \/ RunAstray

Spec == Init /\ [][Next]_vars

-----------------------------------------------------------------------------
(* Every key but the root is once in the ring of its parent, which closes, *)
(* is doubly linked, and ends at Last, whatever is made, deleted, renamed, *)
(* saved and loaded; and no key is forgotten in memory or used twice.      *)
TreeOK ==
    /\ reg \in Trees
    /\ Root \in reg.live /\ reg.live \subseteq 1 .. reg.used /\ reg.live \cap reg.husks = {}
    /\ \A p \in reg.live :
          LET s == Kids(reg, p) IN
          /\ Range(s) = Below(reg, p) /\ Distinct(s)
          /\ Linked(Ring(reg, p), IF s = <<>> THEN s ELSE Append(Tail(s), Head(s)))
    /\ \A k \in reg.live \ {Root} : reg.parent[k] \in reg.live /\ reg.name[k] \in Names

(* Some name of the path fits two keys of its directory. *)
Ambiguous(R, path) ==
    \/ \E k, x \in Below(R, Root) :
          k # x /\ Len(path) = 2 /\ Fold(R.name[k]) = Fold(path[1]) /\ Fold(R.name[x]) = Fold(path[1])
    \/ \E k, x \in R.live \ {Root} :
          k # x /\ R.parent[k] = R.parent[x] /\ R.name[k] = Last(path) /\ R.name[x] = Last(path)

(* A path leads to the key it was set for, whatever is done to others,     *)
(* until that key or its directory is deleted or renamed; except while two *)
(* keys beside each other fit one of its names, when it may lead to either *)
(* (directories that differ in case, as "theme" and "THEME" among the      *)
(* defaults do, or names that RenameKey has made equal).  Even then what   *)
(* was just set is found (registry.c:148-174 and 267-297 agree).           *)
PathsLead ==
    up /\ ~ wild => \A p \in Paths :
       where[p] # NULL /\ (p = just \/ ~ Ambiguous(reg, p)) => ResolveKey(reg, p) = where[p]

(* A start, or a reload, brings back what the last save wrote that came to *)
(* its end: every name, its data and their order.  A save that did not     *)
(* come to its end has destroyed what was there before it, and the program *)
(* reads it all the same (registry.c:130-145 and 41-88).                   *)
RestartAsSaved ==
    [][ \A resetup \in BOOLEAN :
          (RegistryReLoad \/ (Start(resetup) /\ Exists /\ ~ resetup)) =>
             IF torn THEN wild' ELSE Contents(reg') = saved ]_vars

(* The startup entries are run once each and none is left out, whatever    *)
(* the programs they start do to the registry, with two exceptions: if the *)
(* first entry is deleted the walk has lost its end, and runs them again   *)
(* and again; and it goes astray if the entry that is running is deleted   *)
(* itself (registry.c:446-460; dynld.c:803-817 is the same for libraries). *)
EntriesRunOnce ==
    [][ /\ RunNext /\ walk'.a \in walk.ran => walk.spoilt
        /\ RunAstray => walk.own \/ walk.spoilt
        /\ RunOver /\ ~ walk.own =>
              Below(reg, reg.parent[walk.first]) \subseteq walk.ran ]_vars
=============================================================================
