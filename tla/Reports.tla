------------------------------ MODULE Reports ------------------------------
(***************************************************************************)
(* The paged lists of the REST API: /api/packages?ecosystem=&name= (the    *)
(* versions of a package) and /api/packages/summaries (one line for each   *)
(* package), in internal/api/handler.go over the queries of                *)
(* internal/db/package_store.go, and the dashboard that walks through the  *)
(* pages (dashboard/components/ui/pagination.tsx).                         *)
(*                                                                         *)
(* A page is made by two queries, a COUNT and a SELECT, and a walk by many *)
(* requests, with no transaction around any of them: meanwhile the proxy   *)
(* inserts rows and the eviction worker deletes them.                      *)
(*                                                                         *)
(* Lists are ordered by cached_at, newest first.  Two rows never have the  *)
(* same cached_at here, and an upsert over a row, which leaves cached_at   *)
(* alone, changes nothing that a list is about.  A list is the set of its  *)
(* lines with the place that each of them has in the order; a page is a    *)
(* set of lines.  An int has the values -IntMax - 1 .. IntMax.             *)
(*                                                                         *)
(* Definitions whose comment begins with "Mutant" are no part of the       *)
(* model: each is a form that the definition below it could have taken by  *)
(* a mistake in the code, and breaks a property that a run checks.         *)
(***************************************************************************)
EXTENDS Integers, Sequences, FiniteSets, SequencesExt

CONSTANTS
    Packages,       \* what the table may hold: records [name, version]
    Params,         \* values of the query parameters page and page_size
    DefaultSize,    \* page_size when it is not given
    MaxSize,        \* the largest page_size
    IntMax,         \* the largest int
    MaxChanges,     \* bound: changes of the table during a walk
    None            \* an absent parameter, or one that is not an int

ASSUME SizesAssumption == /\ DefaultSize \in 1..MaxSize
                          /\ MaxSize \in 1..IntMax /\ IntMax \in Nat
ASSUME ParamsAssumption == Params \ {None} \subseteq (-IntMax - 1)..IntMax
\* COUNT fits in an int.
ASSUME PackagesAssumption == IsFiniteSet(Packages) /\ Cardinality(Packages) <= IntMax

VARIABLES
    table,      \* the packages table, newest row first
    pc,         \* where the client's request is
    ask,        \* what it asks for: [list, page, size]
    total,      \* what COUNT said
    items,      \* the lines of the page
    \* the walk so far
    seen,       \* the lines it has been shown
    shown,      \* how many lines it has been shown
    stayed,     \* lines that were in the list from its start
    gone,       \* changes that made a line leave its place or the list
    came,       \* changes that put a line at a new place
    torn        \* the latter between the COUNT and the SELECT of a page

request == <<pc, ask, total, items>>
walk == <<seen, shown, stayed, gone, came, torn>>
vars == <<table, request, walk>>

Names == {p.name : p \in Packages}
Summaries == "summaries"
Walking == pc \in {"asked", "counted", "page"}

-----------------------------------------------------------------------------
(* The lists: the versions of one package (WHERE name = $2), whose lines   *)
(* are rows, and the summaries (GROUP BY ecosystem, name), whose lines are *)
(* names.                                                                  *)
LineOf(list, p) ==
    IF list = Summaries THEN {p.name} ELSE {q \in {p} : q.name = list}

Rows(t, list, x) == {i \in DOMAIN t : x \in LineOf(list, t[i])}
Lines(t, list) == UNION {LineOf(list, t[i]) : i \in DOMAIN t}

\* ORDER BY MAX(cached_at) DESC
Before(t, list, x, y) ==
    \E i \in Rows(t, list, x) : \A j \in Rows(t, list, y) : i < j

UpTo(t, list, x) == {y \in Lines(t, list) : y = x \/ Before(t, list, y, x)}
Place(t, list, x) == Cardinality(UpTo(t, list, x))

Least(m, n) == IF m < n THEN m ELSE n

\* int arithmetic
Wrap(n) == ((n + IntMax + 1) % (2 * (IntMax + 1))) - (IntMax + 1)

\* Mutant: the offset is one page too far.
OffsetFromZero(a) == Wrap(a.page * a.size)

Offset(a) == Wrap((a.page - 1) * a.size)

\* Mutant: one line more is fetched, to know whether there is a next page.
PageAndOne(t, a) ==
    {x \in Lines(t, a.list) : Place(t, a.list, x) \in (Offset(a) + 1)..(Offset(a) + a.size + 1)}

\* LIMIT and OFFSET
Page(t, a) ==
    {x \in Lines(t, a.list) : Place(t, a.list, x) \in (Offset(a) + 1)..(Offset(a) + a.size)}

\* strconv.Atoi and its limits
Positive(raw, default) == IF raw # None /\ raw > 0 THEN raw ELSE default

\* Mutant: the size is not clamped.
ParseUnclamped(list, page, size) ==
    [list |-> list, page |-> Positive(page, 1), size |-> Positive(size, DefaultSize)]

ParsePage(list, page, size) ==
    [list |-> list, page |-> Positive(page, 1),
     size |-> Least(Positive(size, DefaultSize), MaxSize)]

-----------------------------------------------------------------------------
Init ==
    /\ table = <<>>
    /\ pc = "idle" /\ ask = None /\ total = 0 /\ items = {}
    /\ seen = {} /\ shown = 0 /\ stayed = {} /\ gone = 0 /\ came = 0 /\ torn = 0

\* Every line of the list in t is in the list in u, in the same order.
Within(t, u, list) ==
    /\ Lines(t, list) \subseteq Lines(u, list)
    /\ \A x, y \in Lines(t, list) : Before(t, list, x, y) => Before(u, list, x, y)

(* The table becomes t; what that means for a walk.                        *)
Becomes(t) ==
    /\ table' = t
    /\ IF Walking
       THEN LET left == IF Within(table, t, ask.list) THEN 0 ELSE 1
                put == IF Within(t, table, ask.list) THEN 0 ELSE 1
            IN  /\ gone + came < MaxChanges
                /\ stayed' = stayed \cap Lines(t, ask.list)
                /\ gone' = gone + left
                /\ came' = came + put
                /\ torn' = torn + IF pc = "counted" THEN put ELSE 0
       ELSE UNCHANGED <<stayed, gone, came, torn>>
    /\ UNCHANGED <<request, seen, shown>>

\* cached_at is the time of the INSERT.
Insert(p) == ~Contains(table, p) /\ Becomes(<<p>> \o table)
Delete(i) == Becomes(RemoveAt(table, i))

(* A client asks for a page; a dashboard begins with the first one.        *)
Ask(list, page, size) ==
    /\ pc = "idle"
    /\ ask' = ParsePage(list, page, size)
    /\ pc' = "asked"
    /\ stayed' = IF ask'.page = 1 THEN Lines(table, list) ELSE {}
    /\ UNCHANGED <<table, total, items, seen, shown, gone, came, torn>>

Count ==
    /\ pc = "asked"
    /\ total' = Cardinality(Lines(table, ask.list))
    /\ IF Offset(ask) >= total' THEN pc' = "page" /\ items' = {}
                                ELSE pc' = "counted" /\ UNCHANGED items
    /\ torn' = 0
    /\ UNCHANGED <<table, ask, seen, shown, stayed, gone, came>>

\* OFFSET must not be negative.
List ==
    /\ pc = "counted"
    /\ IF Offset(ask) < 0 THEN pc' = "failed" /\ UNCHANGED items
       ELSE pc' = "page" /\ items' = Page(table, ask)
    /\ UNCHANGED <<table, ask, total, walk>>

DatabaseFails ==
    /\ pc \in {"asked", "counted"}
    /\ pc' = "failed"
    /\ UNCHANGED <<table, ask, total, items, walk>>

(* The page is shown; there is a next one while page < total / size.       *)
Show ==
    /\ pc = "page"
    /\ seen' = seen \cup items /\ shown' = shown + Cardinality(items)
    /\ IF ask.page * ask.size < total
       THEN pc' = "asked" /\ ask' = [ask EXCEPT !.page = @ + 1]
       ELSE pc' = "done" /\ UNCHANGED ask
    /\ UNCHANGED <<table, total, items, stayed, gone, came, torn>>

\* The client closes the page.
Leave ==
    /\ pc \in {"failed", "done"}
    /\ pc' = "idle" /\ ask' = None /\ total' = 0 /\ items' = {}
    /\ seen' = {} /\ shown' = 0 /\ stayed' = {} /\ gone' = 0 /\ came' = 0 /\ torn' = 0
    /\ UNCHANGED table

Next ==
    \/ \E p \in Packages : Insert(p)
    \/ \E i \in DOMAIN table : Delete(i)
    \/ \E list \in Names \cup {Summaries}, page, size \in Params : Ask(list, page, size)
    \/ Count \/ List \/ DatabaseFails \/ Show \/ Leave

Spec == Init /\ [][Next]_vars

-----------------------------------------------------------------------------
AllLines(list) == UNION {LineOf(list, p) : p \in Packages}

(* Every variable has its type.                                            *)
TypeOK ==
    /\ table \in Seq(Packages)
    /\ pc \in {"idle", "asked", "counted", "page", "failed", "done"}
    /\ IF pc = "idle" THEN <<ask, items, seen, stayed, shown>> = <<None, {}, {}, {}, 0>>
       ELSE /\ ask \in [list : Names \cup {Summaries}, page : 1..IntMax, size : 1..MaxSize]
            /\ items \cup seen \cup stayed \subseteq AllLines(ask.list)
    /\ total \in 0..IntMax
    /\ {shown, gone, came, torn} \subseteq Nat

Missed == stayed \ seen
Twice == shown - Cardinality(seen)

(* A walk from the first page to the last misses no more of the lines that *)
(* were there all the time than other lines left their place meanwhile, or *)
(* came between the COUNT and the SELECT of its last page                  *)
(* (handler.go:112-128, 181-197).                                          *)
MissesHaveCause == pc = "done" => Cardinality(Missed) <= gone + torn

(* A walk shows a line again only for a change that put a line before it   *)
(* meanwhile.                                                              *)
RepeatsHaveCause == Twice <= came

(* A page is as long as its own page, page_size and total say, unless the  *)
(* table changed between the queries or the product of page and page_size  *)
(* is no int (handler.go:110,179).                                         *)
PageFitsTotal ==
    LET before == (ask.page - 1) * ask.size
        left == IF total > before THEN total - before ELSE 0
    IN  pc = "page" /\ before <= IntMax /\ gone = 0 /\ came = 0 =>
            Cardinality(items) = Least(left, Least(ask.size, MaxSize))

-----------------------------------------------------------------------------
(* The inductive invariant behind the theorems of ReportsProofs.           *)

\* The lines that a walk has been shown, or is about to be shown, and how
\* far down the list that was.
Known == IF pc = "page" THEN seen \cup items ELSE seen
Repeated == shown + (IF pc = "page" THEN Cardinality(items) ELSE 0) - Cardinality(Known)
Passed == (IF pc = "page" THEN ask.page ELSE ask.page - 1) * ask.size

Size == Cardinality(Lines(table, ask.list))     \* of the list
PlaceNow(x) == Place(table, ask.list, x)

\* Offsets of a walk are ints, but perhaps for its first page.
FirstOrInt ==
    \/ (ask.page - 1) * ask.size <= IntMax
    \/ seen = {} /\ shown = 0 /\ stayed = {}

\* A line is above the next page unseen only because others left.
PassedUnseen == Cardinality({x \in stayed \ Known : PlaceNow(x) <= Passed}) <= gone

\* A line is below it and seen only because others came.
SeenAhead ==
    Repeated + Cardinality({x \in Known \cap Lines(table, ask.list) : PlaceNow(x) > Passed})
        <= came

\* COUNT is off by the changes since.
CountIsNear ==
    pc = "counted" => /\ Size <= total + torn
                      /\ gone = 0 /\ came = 0 => Size = total

\* The last page leaves out what came since the COUNT.
LastPage ==
    pc = "page" /\ ask.page * ask.size >= total =>
        Cardinality(stayed \ Known) <= gone + torn

WalkInv ==
    Walking => /\ stayed \subseteq Lines(table, ask.list)
               /\ FirstOrInt /\ PassedUnseen /\ SeenAhead /\ CountIsNear /\ LastPage

ReportsInv ==
    TypeOK /\ WalkInv /\ MissesHaveCause /\ RepeatsHaveCause /\ PageFitsTotal
=============================================================================
