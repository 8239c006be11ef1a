----------------------------- MODULE Actors_proofs -----------------------------
(***************************************************************************)
(* Theorems about what actors own, for every set of windows, pages, actors *)
(* and calls.  Roots: what a ref was given for, it keeps, and nobody is    *)
(* told of a page that never was his.  ControlPlane, and WriteAdmission,   *)
(* which implements it: all that is proved of ownership holds of admission *)
(* as well, and with the leases in front of it whoever delivers is fenced. *)
(***************************************************************************)
EXTENDS WriteAdmission, Roots, FiniteSetTheorems, SequenceTheorems, WellFoundedInduction, TLAPS

RootsSafety == RootsInit /\ [][RootsNext]_rootVars

--------------------------------------------------------------------------------
(* The invariant.                                                            *)

GoodRecord(r) == /\ r.app \in {"app", "none"} /\ r.id \in Nat /\ r.native \in Nat
                 /\ r.app = "none" => r.id = 0 /\ r.native = 0

\* A window has its own ref of the helper, which the helper has minted.
DeskOK(d) ==
  /\ DOMAIN d = {"open", "gone", "native", "minted"}
  /\ d.open \subseteq Windows /\ d.native \in [Windows -> Nat] /\ d.minted \in Nat
  /\ \A w \in Windows : d.native[w] <= d.minted
  /\ \A v, w \in Windows : v # w /\ d.native[v] > 0 => d.native[v] # d.native[w]

\* The refs are below the counter, and an identity leads to a record that has it.
TableOK(t) ==
  /\ t = [refs |-> t.refs, by |-> t.by, next |-> t.next] /\ t.next \in Nat
  /\ \A r \in DOMAIN t.refs : r \in Nat /\ r < t.next /\ GoodRecord(t.refs[r])
  /\ \A key \in DOMAIN t.by : t.by[key] \in DOMAIN t.refs /\ WindowRecordIdentity(t.refs[t.by[key]]) = key

\* The refs of pages are others than those of windows.
TabsOK(t, b) ==
  /\ b = [root |-> b.root, context |-> b.context, owner |-> b.owner]
  /\ \A p \in DOMAIN b.root : p \in Pages /\ b.root[p] \in DOMAIN b.context /\ b.context[b.root[p]] = p
  /\ \A r \in DOMAIN b.context : b.context[r] \in Pages /\ r \in Nat /\ r < t.next /\ r \notin DOMAIN t.refs

OwnersOK == \A p \in DOMAIN tabs.owner : p \in Pages /\ tabs.owner[p] \in had[p]

\* A row of find_roots is of a window or a page, and its ref is not given to
\* another: the table knows it by the identity of the row, unless it is of a
\* page, whose ref the table knows only after a resume.
FoundEntry(e) ==
  /\ e.ref \in Nat
  /\ \/ e.root \in Windows /\ e.record.app = "app" /\ e.record.id = IdOf[e.root] /\ e.record.native \in Nat
     \/ e.root \in Pages /\ e.record = PageRow(e.root)
Kept(t, b, e) ==
  /\ e.ref < t.next
  /\ e.root \in Windows => e.ref \in DOMAIN t.refs
  /\ e.ref \in DOMAIN t.refs => WindowRecordIdentity(t.refs[e.ref]) = WindowRecordIdentity(e.record)
  /\ e.ref \in DOMAIN b.context => b.context[e.ref] = e.root

LogOK(log) ==
  /\ log \in Seq(Range(log))
  /\ \A e \in FoundIn(log) : FoundEntry(e)
  /\ \A e, g \in FoundIn(log) : e.ref = g.ref => WindowRecordIdentity(e.record) = WindowRecordIdentity(g.record)

\* What the tables know of a ref that was told in this session, or by find_roots.
ToldOK(t, b, x) ==
  /\ x.ref \in Nat /\ x.ref < t.next /\ x.root \in Windows \cup Pages
  /\ x.root \in Windows =>
       /\ x.ref \in DOMAIN t.refs /\ t.refs[x.ref].app = "app"
       /\ x.by = "find" /\ IdOf[x.root] > 0 => t.refs[x.ref].id = IdOf[x.root]
  /\ x.root \in Pages =>
       /\ x.ref \in DOMAIN t.refs => WindowRecordIdentity(t.refs[x.ref]) = WindowRecordIdentity(PageRow(x.root))
       /\ x.ref \in DOMAIN b.context => b.context[x.ref] = x.root

JobShape(j) ==
  /\ DOMAIN j = {"at", "actor", "session", "record", "target", "base", "rows", "delta", "page", "named"}
  /\ j.at \in {"pages", "snapshot", "resolve", "look", "aim", "deliver"}
  /\ j.session \in Nat

\* What an action opened are windows; its own session knows their refs.
DeltaOK(j, session, t) ==
  \A e \in j.delta : /\ e.root \in Windows
                     /\ j.session = session => e.ref \in DOMAIN t.refs /\ t.refs[e.ref].app = "app"

\* What a call holds: in its own session, rows and a ref that are still good; a
\* page that is or was its actor's; and windows which its record leads to, or
\* its target.
JobOK(j, session, t, b, d, h) ==
  /\ JobShape(j) /\ j.session <= session
  /\ j.at = "pages" => \A e \in j.rows : /\ FoundEntry(e) /\ e.root \in Windows
                                         /\ j.session = session => Kept(t, b, e)
  /\ j.at = "snapshot" => j.page \in Pages /\ j.actor \in h[j.page]
  /\ j.at = "resolve" => GoodRecord(j.record)
  /\ j.at = "resolve" => \A v \in j.named : v \in d.open /\ IdOf[v] > 0 /\ j.record.id = IdOf[v] /\ j.record.app = "app"
  /\ j.at \in {"look", "deliver"} /\ j.session = session =>
       j.target.ref \in DOMAIN t.refs /\ t.refs[j.target.ref].app = "app"
  /\ DeltaOK(j, session, t)
  /\ j.at \in {"aim", "deliver"} => j.named = {}
  /\ j.at = "look" => \A v \in j.named : v \in d.open /\ d.native[v] > 0 /\ d.native[v] = j.target.native

BranchOK == DOMAIN branch = {"session", "calls", "events", "log"} /\ branch.session \in Nat

TablesOK == TableOK(table) /\ TabsOK(table, tabs)
LogInv == LogOK(branch.log) /\ \A e \in FoundIn(branch.log) : Kept(table, tabs, e)
Meant(x) == x.session = branch.session \/ x.by = "find"
ToldInv == /\ \A x \in Told : x.session \in Nat /\ x.session <= branch.session
           /\ \A x \in Told : Meant(x) => ToldOK(table, tabs, x)
           /\ RefsApart /\ OwnPagesOnly
JobsInv == \A c \in RootCalls : jobs[c] = NoJob \/ JobOK(jobs[c], branch.session, table, tabs, desk, had)
HadOK == had \in [Pages -> SUBSET RootActors]

RootsInv == DeskOK(desk) /\ TablesOK /\ HadOK /\ OwnersOK /\ BranchOK /\ LogInv /\ ToldInv
            /\ jobs = [c \in RootCalls |-> jobs[c]] /\ JobsInv

--------------------------------------------------------------------------------
(* Facts about numbers and functions.                                        *)

\* A set of numbers has a least one.
LEMMA LeastNumber ==
  ASSUME NEW T, T \subseteq Nat, T # {}
  PROVE  \E m \in T : \A k \in T : m <= k
<1>1. PICK m \in T : \A k \in T : <<k, m>> \notin OpToRel(<, Nat)
  BY WFMin, NatLessThanWellFounded, Zenon
<1>2. \A k \in T : k < m => <<k, m>> \in OpToRel(<, Nat)
  BY DEF OpToRel
<1>3. \A k \in T : ~(k < m)
  BY <1>1, <1>2
<1> QED
  BY <1>3

\* Induction, as a fact about a set of numbers.
LEMMA SetInduction ==
  ASSUME NEW S, 0 \in S, \A n \in Nat : n \in S => n + 1 \in S
  PROVE  \A n \in Nat : n \in S
<1> DEFINE T == {n \in Nat : n \notin S}
<1> SUFFICES ASSUME T # {} PROVE FALSE
  OBVIOUS
<1>1. PICK m \in T : \A k \in T : m <= k
  <2> HIDE DEF T
  <2>1. T \subseteq Nat
    BY DEF T
  <2> QED
    BY <2>1, LeastNumber
<1>2. m \in Nat /\ m # 0 /\ m - 1 \in Nat
  OBVIOUS
<1>3. m - 1 \notin T
  <2> HIDE DEF T
  <2> QED
    BY <1>1, <1>2
<1>4. (m - 1) + 1 \in S
  BY <1>2, <1>3
<1> QED
  BY <1>2, <1>4

\* A set of numbers below a bound has a greatest one, which Max gives.
LEMMA MaxOfBounded ==
  ASSUME NEW S, S \subseteq Nat, S # {}, NEW b \in Nat, \A x \in S : x <= b
  PROVE  Max(S) \in S /\ \A x \in S : x <= Max(S)
<1> DEFINE T == {n \in Nat : \A x \in S : x <= n}
<1>1. T \subseteq Nat /\ T # {}
  OBVIOUS
<1>2. PICK m \in T : \A k \in T : m <= k
  <2> HIDE DEF T
  <2> QED
    BY <1>1, LeastNumber
<1>3. m \in S
  <2> SUFFICES ASSUME m \notin S PROVE FALSE
    OBVIOUS
  <2>1. PICK x \in S : TRUE
    OBVIOUS
  <2>2. x <= m /\ x # m /\ x \in Nat /\ m \in Nat
    OBVIOUS
  <2>3. m - 1 \in Nat
    BY <2>2
  <2>4. \A y \in S : y <= m - 1
    OBVIOUS
  <2>5. m - 1 \in T
    BY <2>3, <2>4
  <2>6. m <= m - 1
    <3> HIDE DEF T
    <3> QED
      BY <1>2, <2>5
  <2> QED
    BY <2>2, <2>6
<1>4. \E y \in S : \A x \in S : y >= x
  BY <1>3
<1> QED
  BY <1>4 DEF Max

--------------------------------------------------------------------------------
(* Tables only grow within a session.                                        *)

\* What a later table keeps of an earlier one.
Grows(t, n) ==
  /\ n.next >= t.next
  /\ \A x \in DOMAIN t.refs : x \in DOMAIN n.refs /\ WindowRecordIdentity(n.refs[x]) = WindowRecordIdentity(t.refs[x])
  /\ \A x \in DOMAIN n.refs : x \in DOMAIN t.refs \/ x >= t.next
  /\ DOMAIN t.by \subseteq DOMAIN n.by

LEMMA GrowsItself == ASSUME NEW t, TableOK(t) PROVE Grows(t, t)
BY DEF Grows, TableOK

LEMMA GrowsOn ==
  ASSUME NEW t, NEW m, NEW n, TableOK(t), TableOK(m), TableOK(n), Grows(t, m), Grows(m, n)
  PROVE  Grows(t, n)
<1>1. t.next \in Nat /\ m.next \in Nat /\ n.next \in Nat /\ \A x \in DOMAIN n.refs : x \in Nat
  BY DEF TableOK
<1> QED
  BY <1>1 DEF Grows

\* storeWindowRef.
LEMMA StoreOne ==
  ASSUME NEW t, NEW r, TableOK(t), GoodRecord(r)
  PROVE  /\ TableOK(StoreWindowRef(t, r)) /\ Grows(t, StoreWindowRef(t, r))
         /\ WindowRecordIdentity(r) \in DOMAIN StoreWindowRef(t, r).by
<1> DEFINE key == WindowRecordIdentity(r)
           known == key \in DOMAIN t.by
           ref == IF known THEN t.by[key] ELSE t.next
           refs == Put(t.refs, ref, r)
           by == Put(t.by, key, ref)
           next == IF known THEN t.next ELSE t.next + 1
           n == [refs |-> refs, by |-> by, next |-> next]
<1>1. StoreWindowRef(t, r) = n
  BY DEF StoreWindowRef
<1>2. /\ DOMAIN refs = {ref} \cup DOMAIN t.refs /\ refs[ref] = r
      /\ \A x \in DOMAIN t.refs : x # ref => refs[x] = t.refs[x]
  BY DEF Put
<1>3. /\ DOMAIN by = {key} \cup DOMAIN t.by /\ by[key] = ref
      /\ \A k \in DOMAIN t.by : k # key => by[k] = t.by[k]
  BY DEF Put
<1>4. /\ known => ref \in DOMAIN t.refs /\ ref = t.by[key] /\ WindowRecordIdentity(t.refs[ref]) = key /\ next = t.next
      /\ ~known => ref = t.next /\ next = t.next + 1 /\ ref \notin DOMAIN t.refs
      /\ t.next \in Nat /\ next \in Nat /\ next >= t.next
  BY DEF TableOK
<1>5. n.refs = refs /\ n.by = by /\ n.next = next /\ n = [refs |-> n.refs, by |-> n.by, next |-> n.next]
  OBVIOUS
<1>6. WindowRecordIdentity(r) = key
  OBVIOUS
<1> HIDE DEF key, known, ref, refs, by, next, n
<1>7. \A x \in DOMAIN refs : x \in Nat /\ x < next /\ GoodRecord(refs[x])
  BY <1>2, <1>4 DEF TableOK
<1>8. \A x \in DOMAIN t.refs : WindowRecordIdentity(refs[x]) = WindowRecordIdentity(t.refs[x])
  <2> SUFFICES ASSUME NEW x \in DOMAIN t.refs PROVE WindowRecordIdentity(refs[x]) = WindowRecordIdentity(t.refs[x])
    OBVIOUS
  <2>1. CASE x # ref
    BY <2>1, <1>2
  <2>2. CASE x = ref
    BY <2>2, <1>2, <1>4, <1>6
  <2> QED
    BY <2>1, <2>2
<1>9. \A k \in DOMAIN t.by : k \in DOMAIN by /\ by[k] = t.by[k]
  <2> SUFFICES ASSUME NEW k \in DOMAIN t.by PROVE k \in DOMAIN by /\ by[k] = t.by[k]
    OBVIOUS
  <2>1. CASE k # key
    BY <2>1, <1>3
  <2>2. CASE k = key
    BY <2>2, <1>3, <1>4 DEF known
  <2> QED
    BY <2>1, <2>2
<1>10. \A k \in DOMAIN by : by[k] \in DOMAIN refs /\ WindowRecordIdentity(refs[by[k]]) = k
  <2> SUFFICES ASSUME NEW k \in DOMAIN by PROVE by[k] \in DOMAIN refs /\ WindowRecordIdentity(refs[by[k]]) = k
    OBVIOUS
  <2>1. CASE k = key
    BY <2>1, <1>2, <1>3, <1>6
  <2>2. CASE k # key
    <3>1. k \in DOMAIN t.by /\ by[k] = t.by[k]
      BY <2>2, <1>3
    <3>2. t.by[k] \in DOMAIN t.refs /\ WindowRecordIdentity(t.refs[t.by[k]]) = k
      BY <3>1 DEF TableOK
    <3> QED
      BY <3>1, <3>2, <1>2, <1>8
  <2> QED
    BY <2>1, <2>2
<1>11. TableOK(n)
  BY <1>4, <1>5, <1>7, <1>10 DEF TableOK
<1>12. \A x \in DOMAIN refs : x \in DOMAIN t.refs \/ x >= t.next
  BY <1>2, <1>4
<1>13. Grows(t, n)
  <2>1. DOMAIN t.refs \subseteq DOMAIN refs
    BY <1>2
  <2> QED
    BY <2>1, <1>4, <1>5, <1>8, <1>9, <1>12 DEF Grows
<1> QED
  BY <1>1, <1>3, <1>5, <1>6, <1>11, <1>13

--------------------------------------------------------------------------------
(* The windows of a listing are stored one after another.                    *)

\* The recursive definition of StoreEach has a solution.
StoredUpTo(f, t, d, ws, n) ==
  f = [k \in 0 .. n |-> IF k = 0 THEN t ELSE IF k \in ws THEN StoreWindowRef(f[k - 1], Row(d, k)) ELSE f[k - 1]]

LEMMA StoredExists ==
  ASSUME NEW t, NEW d, NEW ws, NEW n \in Nat
  PROVE  \E f : StoredUpTo(f, t, d, ws, n)
<1> DEFINE S == {m \in Nat : \E f : StoredUpTo(f, t, d, ws, m)}
<1>1. 0 \in S
  <2> DEFINE f == [k \in 0 .. 0 |-> t]
  <2>1. StoredUpTo(f, t, d, ws, 0)
    BY DEF StoredUpTo
  <2> QED
    BY <2>1
<1>2. ASSUME NEW m \in Nat, m \in S PROVE m + 1 \in S
  <2>1. PICK f : StoredUpTo(f, t, d, ws, m)
    BY <1>2
  <2> DEFINE v == IF m + 1 \in ws THEN StoreWindowRef(f[m], Row(d, m + 1)) ELSE f[m]
             g == [k \in 0 .. m + 1 |-> IF k = m + 1 THEN v ELSE f[k]]
  <2>2. \A k \in 0 .. m : f[k] = IF k = 0 THEN t ELSE IF k \in ws THEN StoreWindowRef(f[k - 1], Row(d, k)) ELSE f[k - 1]
    BY <2>1, Zenon DEF StoredUpTo
  <2>3. ASSUME NEW k \in 0 .. m + 1
        PROVE  g[k] = IF k = 0 THEN t ELSE IF k \in ws THEN StoreWindowRef(g[k - 1], Row(d, k)) ELSE g[k - 1]
    <3>1. CASE k = m + 1
      <4>1. k # 0 /\ k - 1 = m /\ m \in 0 .. m + 1 /\ m # m + 1
        BY <3>1
      <4>2. g[k] = v /\ g[k - 1] = f[m]
        BY <3>1, <4>1
      <4> QED
        BY <3>1, <4>1, <4>2
    <3>2. CASE k # m + 1
      <4>1. k \in 0 .. m /\ g[k] = f[k]
        BY <3>2
      <4>2. k # 0 => g[k - 1] = f[k - 1]
        BY <4>1
      <4> HIDE DEF g
      <4> QED
        BY <4>1, <4>2, <2>2
    <3> QED
      BY <3>1, <3>2
  <2>4. g = [k \in 0 .. m + 1 |-> IF k = 0 THEN t ELSE IF k \in ws THEN StoreWindowRef(g[k - 1], Row(d, k)) ELSE g[k - 1]]
    <3>1. g = [k \in 0 .. m + 1 |-> g[k]]
      OBVIOUS
    <3> HIDE DEF g
    <3> QED
      BY <2>3, <3>1
  <2>5. StoredUpTo(g, t, d, ws, m + 1)
    BY <2>4, Zenon DEF StoredUpTo
  <2> HIDE DEF g
  <2> QED
    BY <2>5
<1>3. n \in S
  <2> HIDE DEF S
  <2> QED
    BY <1>1, <1>2, SetInduction
<1> QED
  BY <1>3

LEMMA StoreEachIs ==
  ASSUME NEW t, NEW d, NEW ws
  PROVE  \E f : /\ StoreEach(t, d, ws) = f[Cardinality(Windows)] /\ f[0] = t
                /\ \A k \in Windows : f[k] = IF k \in ws THEN StoreWindowRef(f[k - 1], Row(d, k)) ELSE f[k - 1]
<1> DEFINE N == Cardinality(Windows)
           stored == CHOOSE f : StoredUpTo(f, t, d, ws, N)
<1>1. N \in Nat /\ Windows = 1 .. N
  BY RootsAssumption, FS_CardinalityType
<1>2. StoredUpTo(stored, t, d, ws, N)
  <2> HIDE DEF N
  <2> QED
    BY <1>1, StoredExists
<1>3. StoreEach(t, d, ws) = stored[N]
  BY DEF StoreEach, StoredUpTo
<1> HIDE DEF stored, N
<1>4. \A k \in 0 .. N : stored[k] = IF k = 0 THEN t ELSE IF k \in ws THEN StoreWindowRef(stored[k - 1], Row(d, k)) ELSE stored[k - 1]
  BY <1>2, Zenon DEF StoredUpTo
<1>5. stored[0] = t
  BY <1>1, <1>4
<1>6. \A k \in Windows : stored[k] = IF k \in ws THEN StoreWindowRef(stored[k - 1], Row(d, k)) ELSE stored[k - 1]
  BY <1>1, <1>4
<1> QED
  BY <1>3, <1>5, <1>6 DEF N

\* A window with its id and the ref of the helper is a good record.
LEMMA RowGood ==
  ASSUME NEW d, DeskOK(d), NEW w \in Windows
  PROVE  GoodRecord(Row(d, w)) /\ Row(d, w).app = "app" /\ Row(d, w).id = IdOf[w] /\ Row(d, w).native = d.native[w]
BY RootsAssumption DEF DeskOK, Row, GoodRecord

LEMMA StoreEachGrows ==
  ASSUME NEW t, TableOK(t), NEW d, DeskOK(d), NEW ws, ws \subseteq Windows
  PROVE  /\ TableOK(StoreEach(t, d, ws)) /\ Grows(t, StoreEach(t, d, ws))
         /\ \A w \in ws : WindowRecordIdentity(Row(d, w)) \in DOMAIN StoreEach(t, d, ws).by
<1> DEFINE N == Cardinality(Windows)
<1>1. N \in Nat /\ Windows = 1 .. N
  BY RootsAssumption, FS_CardinalityType
<1>2. PICK f : /\ StoreEach(t, d, ws) = f[N] /\ f[0] = t
               /\ \A k \in Windows : f[k] = IF k \in ws THEN StoreWindowRef(f[k - 1], Row(d, k)) ELSE f[k - 1]
  BY StoreEachIs
<1> HIDE DEF N
<1> DEFINE Good(k) == /\ TableOK(f[k]) /\ Grows(t, f[k])
                      /\ \A w \in ws : w <= k => WindowRecordIdentity(Row(d, w)) \in DOMAIN f[k].by
           S == {k \in Nat : k <= N => Good(k)}
<1>3. 0 \in S
  <2>1. \A w \in ws : ~(w <= 0)
    BY <1>1
  <2>2. Good(0)
    BY <1>2, <2>1, GrowsItself
  <2> QED
    BY <2>2
<1>4. ASSUME NEW k \in Nat, k \in S PROVE k + 1 \in S
  <2> SUFFICES ASSUME k + 1 <= N PROVE Good(k + 1)
    OBVIOUS
  <2>1. k + 1 \in Windows /\ (k + 1) - 1 = k /\ k <= N
    BY <1>1
  <2>2. Good(k)
    BY <1>4, <2>1
  <2>3. f[k + 1] = IF k + 1 \in ws THEN StoreWindowRef(f[k], Row(d, k + 1)) ELSE f[k]
    BY <1>2, <2>1
  <2>4. \A w \in ws : w <= k + 1 => w <= k \/ w = k + 1
    BY <1>1
  <2>5. CASE k + 1 \notin ws
    <3>1. f[k + 1] = f[k]
      BY <2>3, <2>5
    <3> QED
      BY <2>2, <2>4, <2>5, <3>1
  <2>6. CASE k + 1 \in ws
    <3>1. f[k + 1] = StoreWindowRef(f[k], Row(d, k + 1))
      BY <2>3, <2>6
    <3>2. /\ TableOK(f[k + 1]) /\ Grows(f[k], f[k + 1])
          /\ WindowRecordIdentity(Row(d, k + 1)) \in DOMAIN f[k + 1].by
      BY <2>1, <2>2, <3>1, RowGood, StoreOne
    <3>3. Grows(t, f[k + 1])
      BY <2>2, <3>2, GrowsOn
    <3>4. \A w \in ws : w <= k => WindowRecordIdentity(Row(d, w)) \in DOMAIN f[k + 1].by
      BY <2>2, <3>2 DEF Grows
    <3> QED
      BY <2>4, <3>2, <3>3, <3>4
  <2> QED
    BY <2>5, <2>6
<1>5. N \in S
  <2> HIDE DEF S
  <2> QED
    BY <1>1, <1>3, <1>4, SetInduction
<1>6. Good(N)
  BY <1>1, <1>5
<1>7. \A w \in ws : w <= N
  BY <1>1
<1> QED
  BY <1>2, <1>6, <1>7

--------------------------------------------------------------------------------
(* Pages are stored one after another.                                       *)

\* What later tables keep of earlier ones while pages are stored.
PagesGrow(t, b, n, c) ==
  /\ Grows(t, n) /\ n.refs = t.refs /\ n.by = t.by
  /\ c.owner = b.owner
  /\ \A p \in DOMAIN b.root : p \in DOMAIN c.root /\ c.root[p] = b.root[p]
  /\ \A r \in DOMAIN b.context : r \in DOMAIN c.context /\ c.context[r] = b.context[r]
  /\ \A r \in DOMAIN c.context : r \in DOMAIN b.context \/ r >= t.next

LEMMA PagesGrowItself ==
  ASSUME NEW t, NEW b, TableOK(t)
  PROVE  PagesGrow(t, b, t, b)
BY GrowsItself DEF PagesGrow

LEMMA PagesGrowOn ==
  ASSUME NEW t, NEW b, NEW m, NEW c, NEW n, NEW e, TableOK(t), TableOK(m), TableOK(n),
         TabsOK(m, c), TabsOK(n, e), PagesGrow(t, b, m, c), PagesGrow(m, c, n, e)
  PROVE  PagesGrow(t, b, n, e)
<1>1. Grows(t, n)
  BY GrowsOn DEF PagesGrow
<1>2. m.next >= t.next /\ m.next \in Nat /\ t.next \in Nat /\ \A r \in DOMAIN e.context : r \in Nat
  BY DEF TableOK, TabsOK, PagesGrow, Grows
<1>3. \A r \in DOMAIN e.context : r \in DOMAIN b.context \/ r >= t.next
  BY <1>2 DEF PagesGrow
<1> QED
  BY <1>1, <1>3 DEF PagesGrow

LEMMA TabsPut ==
  ASSUME NEW b, b = [root |-> b.root, context |-> b.context, owner |-> b.owner], NEW x, NEW y
  PROVE  [b EXCEPT !.root = x, !.context = y] = [root |-> x, context |-> y, owner |-> b.owner]
<1> DEFINE m == [b EXCEPT !.root = x]
<1>1. m = [root |-> x, context |-> b.context, owner |-> b.owner]
  OBVIOUS
<1>2. [m EXCEPT !.context = y] = [root |-> x, context |-> y, owner |-> b.owner]
  <2> HIDE DEF m
  <2> QED
    BY <1>1
<1> QED
  BY <1>2

\* storeBrowserRootRef.
LEMMA StoreOnePage ==
  ASSUME NEW t, NEW b, NEW p \in Pages, TableOK(t), TabsOK(t, b),
         NEW s, s = StoreBrowserRootRef(t, b, p)
  PROVE  /\ TableOK(s.table) /\ TabsOK(s.table, s.tabs) /\ PagesGrow(t, b, s.table, s.tabs)
         /\ p \in DOMAIN s.tabs.root /\ s.ref = s.tabs.root[p]
<1>1. CASE p \in DOMAIN b.root
  <2>1. s.ref = b.root[p] /\ s.table = t /\ s.tabs = b
    BY <1>1 DEF StoreBrowserRootRef
  <2> QED
    BY <1>1, <2>1, PagesGrowItself
<1>2. CASE p \notin DOMAIN b.root
  <2> DEFINE n == [t EXCEPT !.next = @ + 1]
             c == [b EXCEPT !.root = Put(@, p, t.next), !.context = Put(@, t.next, p)]
  <2>1. s.ref = t.next /\ s.table = n /\ s.tabs = c
    BY <1>2 DEF StoreBrowserRootRef, NewPageRef
  <2>2. /\ n = [refs |-> t.refs, by |-> t.by, next |-> t.next + 1]
        /\ n.refs = t.refs /\ n.by = t.by /\ n.next = t.next + 1
    BY DEF TableOK
  <2>3. /\ c = [root |-> Put(b.root, p, t.next), context |-> Put(b.context, t.next, p), owner |-> b.owner]
        /\ c.owner = b.owner /\ c.root = Put(b.root, p, t.next) /\ c.context = Put(b.context, t.next, p)
    <3>1. b = [root |-> b.root, context |-> b.context, owner |-> b.owner]
      BY DEF TabsOK
    <3> DEFINE x == Put(b.root, p, t.next)
               y == Put(b.context, t.next, p)
    <3>2. c = [b EXCEPT !.root = x, !.context = y]
      OBVIOUS
    <3> HIDE DEF c, x, y
    <3>3. c = [root |-> x, context |-> y, owner |-> b.owner]
      BY <3>1, <3>2, TabsPut
    <3> QED
      BY <3>3 DEF x, y
  <2> HIDE DEF n, c
  <2>4. t.next \in Nat /\ n.next \in Nat /\ n.next >= t.next /\ t.next < n.next
    BY <2>2 DEF TableOK
  <2>5. TableOK(n)
    BY <2>2, <2>4 DEF TableOK
  <2>6. /\ DOMAIN c.root = DOMAIN b.root \cup {p} /\ c.root[p] = t.next
        /\ \A q \in DOMAIN b.root : c.root[q] = b.root[q]
    BY <1>2, <2>3 DEF Put
  <2>7. t.next \notin DOMAIN b.context /\ t.next \notin DOMAIN t.refs
    BY <2>4 DEF TabsOK, TableOK
  <2>8. /\ DOMAIN c.context = DOMAIN b.context \cup {t.next} /\ c.context[t.next] = p
        /\ \A r \in DOMAIN b.context : c.context[r] = b.context[r]
    BY <2>3, <2>7 DEF Put
  <2>9. \A q \in DOMAIN c.root : q \in Pages /\ c.root[q] \in DOMAIN c.context /\ c.context[c.root[q]] = q
    <3> SUFFICES ASSUME NEW q \in DOMAIN c.root
                 PROVE  q \in Pages /\ c.root[q] \in DOMAIN c.context /\ c.context[c.root[q]] = q
      OBVIOUS
    <3>1. CASE q = p
      BY <3>1, <2>6, <2>8
    <3>2. CASE q # p
      <4>1. q \in DOMAIN b.root /\ c.root[q] = b.root[q]
        BY <3>2, <2>6
      <4>2. q \in Pages /\ b.root[q] \in DOMAIN b.context /\ b.context[b.root[q]] = q
        BY <4>1 DEF TabsOK
      <4> QED
        BY <4>1, <4>2, <2>8
    <3> QED
      BY <3>1, <3>2
  <2>10. \A r \in DOMAIN c.context : c.context[r] \in Pages /\ r \in Nat /\ r < n.next /\ r \notin DOMAIN n.refs
    <3> SUFFICES ASSUME NEW r \in DOMAIN c.context
                 PROVE  c.context[r] \in Pages /\ r \in Nat /\ r < n.next /\ r \notin DOMAIN n.refs
      OBVIOUS
    <3>1. CASE r = t.next
      BY <3>1, <2>2, <2>4, <2>7, <2>8
    <3>2. CASE r # t.next
      <4>1. r \in DOMAIN b.context /\ c.context[r] = b.context[r]
        BY <3>2, <2>8
      <4>2. b.context[r] \in Pages /\ r \in Nat /\ r < t.next /\ r \notin DOMAIN t.refs
        BY <4>1 DEF TabsOK
      <4> QED
        BY <4>1, <4>2, <2>2, <2>4
    <3> QED
      BY <3>1, <3>2
  <2>11. TabsOK(n, c)
    BY <2>3, <2>9, <2>10 DEF TabsOK
  <2>12. Grows(t, n)
    BY <2>2, <2>4 DEF Grows
  <2>13. \A r \in DOMAIN c.context : r \in DOMAIN b.context \/ r >= t.next
    BY <2>4, <2>8
  <2>14. PagesGrow(t, b, n, c)
    BY <2>2, <2>3, <2>6, <2>8, <2>12, <2>13 DEF PagesGrow
  <2> QED
    BY <2>1, <2>5, <2>6, <2>11, <2>14
<1> QED
  BY <1>1, <1>2

\* The recursive definition of StorePages has a solution.
NextPage(both, p) == LET s == StoreBrowserRootRef(both.table, both.tabs, p) IN [table |-> s.table, tabs |-> s.tabs]
PagesUpTo(f, t, b, page, n) ==
  f = [k \in 0 .. n |-> IF k = 0 THEN [table |-> t, tabs |-> b] ELSE NextPage(f[k - 1], page[k])]

LEMMA PagesExist ==
  ASSUME NEW t, NEW b, NEW page, NEW n \in Nat
  PROVE  \E f : PagesUpTo(f, t, b, page, n)
<1> DEFINE S == {m \in Nat : \E f : PagesUpTo(f, t, b, page, m)}
           v0 == [table |-> t, tabs |-> b]
<1>1. 0 \in S
  <2> DEFINE f == [k \in 0 .. 0 |-> v0]
  <2>1. PagesUpTo(f, t, b, page, 0)
    BY DEF PagesUpTo
  <2> QED
    BY <2>1
<1>2. ASSUME NEW m \in Nat, m \in S PROVE m + 1 \in S
  <2>1. PICK f : PagesUpTo(f, t, b, page, m)
    BY <1>2
  <2> DEFINE g == [k \in 0 .. m + 1 |-> IF k = m + 1 THEN NextPage(f[m], page[m + 1]) ELSE f[k]]
  <2>2. \A k \in 0 .. m : f[k] = IF k = 0 THEN [table |-> t, tabs |-> b] ELSE NextPage(f[k - 1], page[k])
    BY <2>1, Zenon DEF PagesUpTo
  <2>3. ASSUME NEW k \in 0 .. m + 1
        PROVE  g[k] = IF k = 0 THEN [table |-> t, tabs |-> b] ELSE NextPage(g[k - 1], page[k])
    <3>1. CASE k = m + 1
      <4>1. k # 0 /\ k - 1 = m /\ m \in 0 .. m + 1 /\ m # m + 1
        BY <3>1
      <4>2. g[k] = NextPage(f[m], page[m + 1]) /\ g[k - 1] = f[m]
        BY <3>1, <4>1
      <4> QED
        BY <3>1, <4>1, <4>2
    <3>2. CASE k # m + 1
      <4>1. k \in 0 .. m /\ g[k] = f[k]
        BY <3>2
      <4>2. k # 0 => g[k - 1] = f[k - 1]
        BY <4>1
      <4> HIDE DEF g
      <4> QED
        BY <4>1, <4>2, <2>2
    <3> QED
      BY <3>1, <3>2
  <2>4. g = [k \in 0 .. m + 1 |-> IF k = 0 THEN [table |-> t, tabs |-> b] ELSE NextPage(g[k - 1], page[k])]
    <3>1. g = [k \in 0 .. m + 1 |-> g[k]]
      OBVIOUS
    <3> HIDE DEF g
    <3> QED
      BY <2>3, <3>1
  <2>5. PagesUpTo(g, t, b, page, m + 1)
    BY <2>4, Zenon DEF PagesUpTo
  <2> HIDE DEF g
  <2> QED
    BY <2>5
<1>3. n \in S
  <2> HIDE DEF S
  <2> QED
    BY <1>1, <1>2, SetInduction
<1> QED
  BY <1>3

PagesRun(f, page, t, b, ps) ==
  /\ page \in Seq(ps) /\ \A p \in ps : \E k \in 1 .. Len(page) : page[k] = p
  /\ f[0] = [table |-> t, tabs |-> b]
  /\ \A k \in 1 .. Len(page) : f[k] = NextPage(f[k - 1], page[k])

LEMMA StorePagesIs ==
  ASSUME NEW t, NEW b, NEW ps \in SUBSET Pages
  PROVE  \E f, page : PagesRun(f, page, t, b, ps) /\ StorePages(t, b, ps) = f[Len(page)]
<1> DEFINE page == SetToSeq(ps)
           stored == CHOOSE f : PagesUpTo(f, t, b, page, Len(page))
<1>1. page \in Seq(ps) /\ Len(page) \in Nat /\ \A p \in ps : \E k \in 1 .. Len(page) : page[k] = p
  <2>1. IsFiniteSet(ps)
    BY RootsAssumption, FS_Subset
  <2>2. Cardinality(ps) \in Nat /\ ExistsBijection(1 .. Cardinality(ps), ps)
    BY <2>1, FS_CardinalityType
  <2>3. \E g \in [1 .. Cardinality(ps) -> ps] : IsInjective(g)
    BY <2>2, Zenon DEF ExistsBijection, Bijection, Injection
  <2>4. page \in [1 .. Cardinality(ps) -> ps] /\ IsInjective(page)
    BY <2>3, Zenon DEF SetToSeq
  <2> HIDE DEF page
  <2>5. page \in Injection(1 .. Cardinality(ps), ps)
    BY <2>4 DEF Injection
  <2>6. Cardinality(1 .. Cardinality(ps)) = Cardinality(ps)
    BY <2>2, FS_Interval
  <2>7. page \in Surjection(1 .. Cardinality(ps), ps)
    BY <2>1, <2>5, <2>6, FS_Injection
  <2>8. page \in Seq(ps) /\ Len(page) = Cardinality(ps)
    BY <2>2, <2>4
  <2> QED
    BY <2>2, <2>7, <2>8 DEF Surjection
<1>2. StorePages(t, b, ps) = stored[Len(page)]
  BY DEF StorePages, PagesUpTo, NextPage
<1>3. PagesUpTo(stored, t, b, page, Len(page))
  <2> HIDE DEF page
  <2> QED
    BY <1>1, PagesExist
<1> HIDE DEF stored, page
<1>4. \A k \in 0 .. Len(page) : stored[k] = IF k = 0 THEN [table |-> t, tabs |-> b] ELSE NextPage(stored[k - 1], page[k])
  BY <1>3, Zenon DEF PagesUpTo
<1>5. stored[0] = [table |-> t, tabs |-> b] /\ \A k \in 1 .. Len(page) : stored[k] = NextPage(stored[k - 1], page[k])
  BY <1>1, <1>4
<1>6. PagesRun(stored, page, t, b, ps)
  BY <1>1, <1>5 DEF PagesRun
<1> QED
  BY <1>2, <1>6

LEMMA StorePagesGrows ==
  ASSUME NEW t, NEW b, NEW ps \in SUBSET Pages, TableOK(t), TabsOK(t, b),
         NEW s, s = StorePages(t, b, ps)
  PROVE  /\ TableOK(s.table) /\ TabsOK(s.table, s.tabs) /\ PagesGrow(t, b, s.table, s.tabs)
         /\ ps \subseteq DOMAIN s.tabs.root
<1>0. PICK f, page : PagesRun(f, page, t, b, ps) /\ StorePages(t, b, ps) = f[Len(page)]
  BY StorePagesIs
<1>1. /\ s = f[Len(page)] /\ page \in Seq(ps) /\ \A p \in ps : \E k \in 1 .. Len(page) : page[k] = p
      /\ f[0] = [table |-> t, tabs |-> b]
      /\ \A k \in 1 .. Len(page) : f[k] = NextPage(f[k - 1], page[k])
  BY <1>0 DEF PagesRun
<1> DEFINE Good(k) == /\ TableOK(f[k].table) /\ TabsOK(f[k].table, f[k].tabs) /\ PagesGrow(t, b, f[k].table, f[k].tabs)
                      /\ \A j \in 1 .. Len(page) : j <= k => page[j] \in DOMAIN f[k].tabs.root
           S == {k \in Nat : k <= Len(page) => Good(k)}
<1>2. Len(page) \in Nat
  BY <1>1
<1>3. 0 \in S
  <2>1. \A j \in 1 .. Len(page) : ~(j <= 0)
    BY <1>2
  <2>2. f[0].table = t /\ f[0].tabs = b
    BY <1>1
  <2>3. Good(0)
    BY <2>1, <2>2, PagesGrowItself
  <2> QED
    BY <2>3
<1>4. ASSUME NEW k \in Nat, k \in S PROVE k + 1 \in S
  <2> SUFFICES ASSUME k + 1 <= Len(page) PROVE Good(k + 1)
    OBVIOUS
  <2>1. k + 1 \in 1 .. Len(page) /\ (k + 1) - 1 = k /\ k <= Len(page)
    BY <1>2
  <2>2. Good(k)
    BY <1>4, <2>1
  <2>3. f[k + 1] = NextPage(f[k], page[k + 1])
    BY <1>1, <2>1
  <2>4. page[k + 1] \in Pages
    BY <1>1, <2>1
  <2> DEFINE q == StoreBrowserRootRef(f[k].table, f[k].tabs, page[k + 1])
  <2>5. f[k + 1].table = q.table /\ f[k + 1].tabs = q.tabs
    BY <2>3 DEF NextPage
  <2>6. /\ TableOK(q.table) /\ TabsOK(q.table, q.tabs) /\ PagesGrow(f[k].table, f[k].tabs, q.table, q.tabs)
        /\ page[k + 1] \in DOMAIN q.tabs.root
    BY <2>2, <2>4, StoreOnePage
  <2> HIDE DEF q
  <2>7. PagesGrow(t, b, q.table, q.tabs)
    BY <2>2, <2>6, PagesGrowOn
  <2>8. \A j \in 1 .. Len(page) : j <= k + 1 => j <= k \/ j = k + 1
    BY <1>2
  <2>9. \A j \in 1 .. Len(page) : j <= k + 1 => page[j] \in DOMAIN q.tabs.root
    BY <2>2, <2>6, <2>8 DEF PagesGrow
  <2> QED
    BY <2>5, <2>6, <2>7, <2>9
<1>5. Len(page) \in S
  <2> HIDE DEF S
  <2> QED
    BY <1>2, <1>3, <1>4, SetInduction
<1>6. Good(Len(page))
  BY <1>2, <1>5
<1>7. \A j \in 1 .. Len(page) : j <= Len(page)
  BY <1>2
<1> QED
  BY <1>1, <1>6, <1>7

--------------------------------------------------------------------------------
(* The table a session is resumed with.                                      *)

LEMMA FoundMeans ==
  ASSUME NEW log, log \in Seq(Range(log))
  PROVE  \A e : e \in FoundIn(log) <=> \E k \in 1 .. Len(log) : log[k].kind = "find" /\ e \in log[k].entries
BY DEF FoundIn

\* The first result that gives a ref, and the record it has there.
LEMMA FirstIs ==
  ASSUME NEW log, log \in Seq(Range(log)), NEW e \in FoundIn(log)
  PROVE  /\ FirstGiven(log, e.ref) \in 1 .. Len(log)
         /\ \E g \in FoundIn(log) : g.ref = e.ref /\ RecordOf(log, e.ref) = g.record
<1> DEFINE r == e.ref
           T == {k \in 1 .. Len(log) : Gives(log, k, r)}
<1>0. Len(log) \in Nat
  OBVIOUS
<1>1. T \subseteq Nat /\ T # {}
  <2>1. PICK k \in 1 .. Len(log) : log[k].kind = "find" /\ e \in log[k].entries
    BY FoundMeans
  <2>2. Gives(log, k, r)
    BY <2>1 DEF Gives
  <2> QED
    BY <1>0, <2>2
<1>2. PICK m \in T : \A k \in T : m <= k
  <2> HIDE DEF T
  <2> QED
    BY <1>1, LeastNumber
<1>3. m \in 1 .. Len(log) /\ Gives(log, m, r) /\ \A j \in 1 .. m - 1 : ~Gives(log, j, r)
  BY <1>0, <1>2
<1>4. FirstGiven(log, r) \in 1 .. Len(log) /\ Gives(log, FirstGiven(log, r), r)
  BY <1>3, Zenon DEF FirstGiven
<1> DEFINE k == FirstGiven(log, r)
<1> HIDE DEF k
<1>5. k \in 1 .. Len(log) /\ log[k].kind = "find" /\ \E g \in log[k].entries : g.ref = r
  BY <1>4 DEF Gives, k
<1> DEFINE g == CHOOSE g \in log[k].entries : g.ref = r
<1>6. g \in log[k].entries /\ g.ref = r
  BY <1>5, Zenon
<1>7. RecordOf(log, r) = g.record
  BY DEF RecordOf, k
<1> HIDE DEF g
<1>8. g \in FoundIn(log)
  BY <1>5, <1>6, FoundMeans
<1> QED
  BY <1>4, <1>6, <1>7, <1>8

LEMMA RefForIs ==
  ASSUME NEW log, log \in Seq(Range(log)), NEW e \in FoundIn(log)
  PROVE  \E g \in FoundIn(log) : /\ WindowRecordIdentity(g.record) = WindowRecordIdentity(e.record)
                                 /\ RefFor(log, WindowRecordIdentity(e.record)) = g.ref
<1> DEFINE key == WindowRecordIdentity(e.record)
           named == {h \in FoundIn(log) : WindowRecordIdentity(h.record) = key}
           T == {FirstGiven(log, h.ref) : h \in named}
<1>1. T \subseteq Nat /\ T # {}
  <2>1. \A h \in named : FirstGiven(log, h.ref) \in 1 .. Len(log)
    BY FirstIs
  <2>2. e \in named /\ Len(log) \in Nat
    OBVIOUS
  <2> HIDE DEF named
  <2> QED
    BY <2>1, <2>2
<1>2. PICK m \in T : \A k \in T : m <= k
  <2> HIDE DEF T
  <2> QED
    BY <1>1, LeastNumber
<1>3. PICK f \in named : m = FirstGiven(log, f.ref)
  BY <1>2
<1>4. \A h \in named : FirstGiven(log, f.ref) <= FirstGiven(log, h.ref)
  <2> SUFFICES ASSUME NEW h \in named PROVE FirstGiven(log, f.ref) <= FirstGiven(log, h.ref)
    OBVIOUS
  <2>1. FirstGiven(log, h.ref) \in T
    BY Zenon
  <2> HIDE DEF T, named
  <2> QED
    BY <1>2, <1>3, <2>1
<1> DEFINE g == CHOOSE g \in named : \A h \in named : FirstGiven(log, g.ref) <= FirstGiven(log, h.ref)
<1>5. g \in named
  <2> HIDE DEF named
  <2> QED
    BY <1>3, <1>4, Zenon
<1>6. RefFor(log, key) = g.ref
  BY Zenon DEF RefFor
<1> HIDE DEF g
<1> QED
  BY <1>5, <1>6

LEMMA FoundEntryGood ==
  ASSUME NEW e, FoundEntry(e)
  PROVE  e.ref \in Nat /\ GoodRecord(e.record)
<1>1. CASE e.root \in Windows /\ e.record.app = "app" /\ e.record.id = IdOf[e.root] /\ e.record.native \in Nat
  <2>1. IdOf[e.root] \in Nat
    BY <1>1, RootsAssumption
  <2> QED
    BY <1>1, <2>1 DEF FoundEntry, GoodRecord
<1>2. CASE e.root \in Pages /\ e.record = PageRow(e.root)
  BY <1>2 DEF FoundEntry, GoodRecord, PageRow
<1> QED
  BY <1>1, <1>2 DEF FoundEntry

LEMMA ReconstructedOK ==
  ASSUME NEW log, LogOK(log), NEW b \in Nat, \A e \in FoundIn(log) : e.ref < b
  PROVE  /\ TableOK(Reconstructed(log))
         /\ \A e \in FoundIn(log) : Kept(Reconstructed(log), NoTabs, e) /\ e.ref \in DOMAIN Reconstructed(log).refs
<1> DEFINE found == FoundIn(log)
           R == {e.ref : e \in found}
           refs == [r \in R |-> RecordOf(log, r)]
           K == {WindowRecordIdentity(e.record) : e \in found}
           by == [key \in K |-> RefFor(log, key)]
           next == NextAfter(found)
           n == Reconstructed(log)
<1>0. log \in Seq(Range(log)) /\ (\A e \in found : FoundEntry(e))
      /\ \A e, g \in found : e.ref = g.ref => WindowRecordIdentity(e.record) = WindowRecordIdentity(g.record)
  BY DEF LogOK
<1>1. n = [refs |-> refs, by |-> by, next |-> next]
  BY Zenon DEF Reconstructed
<1>2. n.refs = refs /\ n.by = by /\ n.next = next
  BY <1>1
<1>3. \A e \in found : e.ref \in Nat /\ GoodRecord(e.record)
  <2> SUFFICES ASSUME NEW e \in found PROVE e.ref \in Nat /\ GoodRecord(e.record)
    OBVIOUS
  <2>1. FoundEntry(e)
    BY <1>0
  <2> HIDE DEF found
  <2> QED
    BY <2>1, FoundEntryGood
<1>4. next \in Nat /\ \A r \in R : r \in Nat /\ r < next
  <2>1. CASE found = {}
    BY <2>1 DEF NextAfter
  <2>2. CASE found # {}
    <3>1. R \subseteq Nat /\ R # {} /\ \A r \in R : r <= b
      BY <1>3, <2>2
    <3>2. next = Max(R) + 1
      BY <2>2 DEF NextAfter
    <3> HIDE DEF R, next
    <3>3. Max(R) \in R /\ \A x \in R : x <= Max(R)
      BY <3>1, MaxOfBounded
    <3> QED
      <4>1. Max(R) \in Nat
        BY <3>1, <3>3
      <4>2. next \in Nat /\ Max(R) < next
        BY <3>2, <4>1
      <4>3. ASSUME NEW r \in R PROVE r \in Nat /\ r < next
        BY <3>1, <3>3, <4>1, <4>2
      <4> QED
        BY <4>2, <4>3
  <2> QED
    BY <2>1, <2>2
<1>5. \A e \in found : /\ e.ref \in DOMAIN refs /\ GoodRecord(refs[e.ref])
                       /\ WindowRecordIdentity(refs[e.ref]) = WindowRecordIdentity(e.record)
  <2> SUFFICES ASSUME NEW e \in found
               PROVE  /\ e.ref \in DOMAIN refs /\ GoodRecord(refs[e.ref])
                      /\ WindowRecordIdentity(refs[e.ref]) = WindowRecordIdentity(e.record)
    OBVIOUS
  <2>1. e.ref \in R
    OBVIOUS
  <2>2. DOMAIN refs = R /\ refs[e.ref] = RecordOf(log, e.ref)
    BY <2>1
  <2>3. PICK g \in found : g.ref = e.ref /\ RecordOf(log, e.ref) = g.record
    BY <1>0, FirstIs
  <2> HIDE DEF refs, R, found
  <2> QED
    BY <2>1, <2>2, <2>3, <1>0, <1>3
<1>6. \A key \in DOMAIN by : by[key] \in DOMAIN refs /\ WindowRecordIdentity(refs[by[key]]) = key
  <2> SUFFICES ASSUME NEW key \in K
               PROVE  by[key] \in DOMAIN refs /\ WindowRecordIdentity(refs[by[key]]) = key
    OBVIOUS
  <2>1. PICK e \in found : key = WindowRecordIdentity(e.record)
    OBVIOUS
  <2>2. by[key] = RefFor(log, key)
    OBVIOUS
  <2>3. PICK g \in found : WindowRecordIdentity(g.record) = key /\ RefFor(log, key) = g.ref
    BY <1>0, <2>1, RefForIs
  <2> HIDE DEF refs, by, found
  <2> QED
    BY <2>2, <2>3, <1>5
<1>7. DOMAIN refs = R
  OBVIOUS
<1>8. \A r \in R : \E e \in found : r = e.ref
  OBVIOUS
<1> HIDE DEF R, K, refs, by, next, n, found
<1>9. \A r \in DOMAIN n.refs : r \in Nat /\ r < n.next /\ GoodRecord(n.refs[r])
  BY <1>2, <1>4, <1>5, <1>7, <1>8
<1>10. TableOK(n)
  BY <1>1, <1>2, <1>4, <1>6, <1>9 DEF TableOK
<1>11. \A e \in found : Kept(n, NoTabs, e) /\ e.ref \in DOMAIN n.refs
  <2>1. DOMAIN NoTabs.context = {}
    BY DEF NoTabs
  <2>2. \A e \in found : e.ref \in R
    BY <1>5, <1>7
  <2> QED
    BY <1>2, <1>4, <1>5, <2>1, <2>2 DEF Kept
<1> QED
  BY <1>10, <1>11 DEF n, found

\* An earlier point of a branch.
LEMMA EarlierLog ==
  ASSUME NEW log, LogOK(log), NEW n \in 0 .. Len(log)
  PROVE  /\ LogOK(SubSeq(log, 1, n)) /\ FoundIn(SubSeq(log, 1, n)) \subseteq FoundIn(log)
         /\ Len(SubSeq(log, 1, n)) = n /\ \A k \in 1 .. n : k \in 1 .. Len(log) /\ SubSeq(log, 1, n)[k] = log[k]
<1> DEFINE s == SubSeq(log, 1, n)
<1>1. log \in Seq(Range(log))
  BY DEF LogOK
<1>2. Len(log) \in Nat /\ n \in Nat /\ n <= Len(log)
  BY <1>1
<1>3. Len(s) = n /\ (\A k \in 1 .. n : s[k] = log[k]) /\ s = [k \in 1 .. n |-> log[k]]
  BY <1>1, <1>2
<1> HIDE DEF s
<1>4. s \in Seq(Range(s))
  BY <1>2, <1>3 DEF Range
<1>5. \A k \in 1 .. n : k \in 1 .. Len(log) /\ s[k] = log[k]
  BY <1>2, <1>3
<1>6. FoundIn(s) \subseteq FoundIn(log)
  <2> SUFFICES ASSUME NEW e \in FoundIn(s) PROVE e \in FoundIn(log)
    OBVIOUS
  <2>1. PICK k \in 1 .. Len(s) : s[k].kind = "find" /\ e \in s[k].entries
    BY <1>4, FoundMeans
  <2>2. k \in 1 .. Len(log) /\ s[k] = log[k]
    BY <1>3, <1>5
  <2> QED
    BY <1>1, <2>1, <2>2, FoundMeans
<1>7. LogOK(s)
  BY <1>4, <1>6 DEF LogOK
<1> QED
  BY <1>3, <1>5, <1>6, <1>7 DEF s

\* A branch with one more result.
LEMMA LongerLog ==
  ASSUME NEW log, log \in Seq(Range(log)), NEW x
  PROVE  /\ Append(log, x) \in Seq(Range(Append(log, x)))
         /\ Len(Append(log, x)) = Len(log) + 1 /\ Append(log, x)[Len(log) + 1] = x
         /\ \A k \in 1 .. Len(log) : Append(log, x)[k] = log[k]
         /\ \A e : e \in FoundIn(Append(log, x)) <=> e \in FoundIn(log) \/ (x.kind = "find" /\ e \in x.entries)
<1> DEFINE l == Append(log, x)
<1>1. Len(log) \in Nat
  OBVIOUS
<1>2. Len(l) = Len(log) + 1 /\ l[Len(log) + 1] = x /\ (\A k \in 1 .. Len(log) : l[k] = log[k])
  BY <1>1
<1>3. l \in Seq(Range(log) \cup {x})
  OBVIOUS
<1> HIDE DEF l
<1>4. l \in Seq(Range(l))
  <2>1. \A k \in 1 .. Len(l) : l[k] \in Range(l)
    BY <1>3 DEF Range
  <2> QED
    BY <1>3, <2>1
<1>5. ASSUME NEW e PROVE e \in FoundIn(l) <=> e \in FoundIn(log) \/ (x.kind = "find" /\ e \in x.entries)
  <2>1. \A k \in 1 .. Len(l) : k \in 1 .. Len(log) \/ k = Len(log) + 1
    BY <1>1, <1>2
  <2>2. \A k \in 1 .. Len(log) : k \in 1 .. Len(l)
    BY <1>1, <1>2
  <2>3. Len(log) + 1 \in 1 .. Len(l)
    BY <1>1, <1>2
  <2>4. e \in FoundIn(l) <=> \E k \in 1 .. Len(l) : l[k].kind = "find" /\ e \in l[k].entries
    BY <1>4, FoundMeans
  <2>5. e \in FoundIn(log) <=> \E k \in 1 .. Len(log) : log[k].kind = "find" /\ e \in log[k].entries
    BY FoundMeans
  <2> QED
    BY <1>2, <2>1, <2>2, <2>3, <2>4, <2>5
<1> QED
  BY <1>2, <1>4, <1>5 DEF l

--------------------------------------------------------------------------------
(* What changing tables keep.                                                *)

\* An identity tells windows from pages, and the id of a window that has one.
LEMMA IdentityTells ==
  ASSUME NEW r, NEW s, WindowRecordIdentity(r) = WindowRecordIdentity(s)
  PROVE  r.app = s.app /\ (r.id > 0 => r.id = s.id)
<1>1. WindowRecordIdentity(r) = <<r.app, "id", r.id>> \/ WindowRecordIdentity(r)[2] # "id"
  BY DEF WindowRecordIdentity
<1>2. WindowRecordIdentity(s) = <<s.app, "id", s.id>> \/ WindowRecordIdentity(s)[2] # "id"
  BY DEF WindowRecordIdentity
<1>3. WindowRecordIdentity(r)[1] = r.app /\ WindowRecordIdentity(s)[1] = s.app
  BY DEF WindowRecordIdentity
<1>4. r.id > 0 => WindowRecordIdentity(r)[2] = "id" /\ WindowRecordIdentity(r)[3] = r.id
  BY DEF WindowRecordIdentity
<1>5. WindowRecordIdentity(s)[2] = "id" => WindowRecordIdentity(s)[3] = s.id
  BY <1>2
<1> QED
  BY <1>3, <1>4, <1>5

LEMMA PageIdentity ==
  ASSUME NEW p, NEW q, WindowRecordIdentity(PageRow(p)) = WindowRecordIdentity(PageRow(q))
  PROVE  p = q
<1>1. ASSUME NEW x PROVE WindowRecordIdentity(PageRow(x))[3] = x
  <2>1. /\ PageRow(x).id = 0 /\ PageRow(x).native = 0 /\ PageRow(x).title = x
    BY DEF PageRow
  <2> QED
    BY <2>1 DEF WindowRecordIdentity
<1> QED
  BY <1>1

\* The tables of a session from one step to the next.
Moves(t, b, n, c) ==
  /\ TableOK(t) /\ TabsOK(t, b) /\ TableOK(n) /\ TabsOK(n, c)
  /\ Grows(t, n)
  /\ \A r \in DOMAIN c.context : (r \in DOMAIN b.context /\ c.context[r] = b.context[r]) \/ r >= t.next

LEMMA MovesNot ==
  ASSUME NEW t, NEW b, TableOK(t), TabsOK(t, b)
  PROVE  Moves(t, b, t, b)
BY GrowsItself DEF Moves

LEMMA TabsStay ==
  ASSUME NEW t, NEW b, NEW n, TableOK(t), TabsOK(t, b), TableOK(n), Grows(t, n)
  PROVE  Moves(t, b, n, b)
<1>1. t.next \in Nat /\ n.next \in Nat /\ n.next >= t.next /\ \A r \in DOMAIN n.refs : r \in DOMAIN t.refs \/ r >= t.next
  BY DEF TableOK, Grows
<1>2. \A r \in DOMAIN b.context : r \in Nat /\ r < t.next /\ r \notin DOMAIN t.refs
  BY DEF TabsOK
<1>3. \A r \in DOMAIN b.context : r < n.next /\ r \notin DOMAIN n.refs
  BY <1>1, <1>2
<1>4. TabsOK(n, b)
  BY <1>3 DEF TabsOK
<1> QED
  BY <1>4 DEF Moves

LEMMA PagesMove ==
  ASSUME NEW t, NEW b, NEW n, NEW c, TableOK(t), TabsOK(t, b), TableOK(n), TabsOK(n, c), PagesGrow(t, b, n, c)
  PROVE  Moves(t, b, n, c)
BY DEF Moves, PagesGrow

LEMMA KeptStays ==
  ASSUME NEW t, NEW b, NEW n, NEW c, Moves(t, b, n, c), NEW e, e.ref \in Nat, Kept(t, b, e)
  PROVE  Kept(n, c, e)
<1>1. t.next \in Nat /\ n.next \in Nat /\ n.next >= t.next
  BY DEF Moves, TableOK, Grows
<1>2. e.ref < t.next
  BY DEF Kept
<1>3. e.ref < n.next /\ ~(e.ref >= t.next)
  BY <1>1, <1>2
<1>4. e.ref \in DOMAIN n.refs => e.ref \in DOMAIN t.refs
  BY <1>3 DEF Moves, Grows
<1>5. e.ref \in DOMAIN t.refs =>
        e.ref \in DOMAIN n.refs /\ WindowRecordIdentity(n.refs[e.ref]) = WindowRecordIdentity(t.refs[e.ref])
  BY DEF Moves, Grows
<1>6. e.ref \in DOMAIN c.context => e.ref \in DOMAIN b.context /\ c.context[e.ref] = b.context[e.ref]
  BY <1>3 DEF Moves
<1> QED
  BY <1>3, <1>4, <1>5, <1>6 DEF Kept

LEMMA ToldStays ==
  ASSUME NEW t, NEW b, NEW n, NEW c, Moves(t, b, n, c), NEW x, ToldOK(t, b, x)
  PROVE  ToldOK(n, c, x)
<1>1. t.next \in Nat /\ n.next \in Nat /\ n.next >= t.next
  BY DEF Moves, TableOK, Grows
<1>2. x.ref \in Nat /\ x.ref < t.next /\ x.root \in Windows \cup Pages
  BY DEF ToldOK
<1>3. x.ref < n.next /\ ~(x.ref >= t.next)
  BY <1>1, <1>2
<1>4. x.ref \in DOMAIN n.refs => x.ref \in DOMAIN t.refs
  BY <1>3 DEF Moves, Grows
<1>5. x.ref \in DOMAIN t.refs =>
        x.ref \in DOMAIN n.refs /\ WindowRecordIdentity(n.refs[x.ref]) = WindowRecordIdentity(t.refs[x.ref])
  BY DEF Moves, Grows
<1>6. x.ref \in DOMAIN c.context => x.ref \in DOMAIN b.context /\ c.context[x.ref] = b.context[x.ref]
  BY <1>3 DEF Moves
<1>7. x.ref \in DOMAIN t.refs => /\ n.refs[x.ref].app = t.refs[x.ref].app
                                 /\ t.refs[x.ref].id > 0 => n.refs[x.ref].id = t.refs[x.ref].id
  BY <1>5, IdentityTells
<1>8. x.root \in Windows =>
        /\ x.ref \in DOMAIN n.refs /\ n.refs[x.ref].app = "app"
        /\ x.by = "find" /\ IdOf[x.root] > 0 => n.refs[x.ref].id = IdOf[x.root]
  BY <1>5, <1>7 DEF ToldOK
<1>9. x.root \in Pages =>
        /\ x.ref \in DOMAIN n.refs => WindowRecordIdentity(n.refs[x.ref]) = WindowRecordIdentity(PageRow(x.root))
        /\ x.ref \in DOMAIN c.context => c.context[x.ref] = x.root
  BY <1>4, <1>5, <1>6 DEF ToldOK
<1> QED
  BY <1>2, <1>3, <1>8, <1>9 DEF ToldOK

\* A ref that leads to a window, or to a page.
Anchored(t, b, e) ==
  /\ e.root \in Windows \cup Pages
  /\ e.root \in Windows => e.ref \in DOMAIN t.refs /\ t.refs[e.ref].app = "app"
  /\ e.root \in Pages => e.ref \in DOMAIN b.context /\ b.context[e.ref] = e.root

LEMMA AnchoredApart ==
  ASSUME NEW t, NEW b, TabsOK(t, b), NEW x, Anchored(t, b, x), NEW y, ToldOK(t, b, y),
         x.ref = y.ref, x.root \in Pages \/ y.root \in Pages
  PROVE  x.root = y.root
<1>1. CASE x.root \in Pages
  <2>1. x.ref \in DOMAIN b.context /\ b.context[x.ref] = x.root /\ x.ref \notin DOMAIN t.refs
    BY <1>1 DEF Anchored, TabsOK
  <2>2. y.root \notin Windows
    BY <2>1 DEF ToldOK
  <2> QED
    BY <2>1, <2>2 DEF ToldOK
<1>2. CASE x.root \notin Pages
  <2>1. y.root \in Pages /\ x.root \in Windows
    BY <1>2 DEF Anchored
  <2>2. x.ref \in DOMAIN t.refs /\ t.refs[x.ref].app = "app"
    BY <2>1 DEF Anchored
  <2>3. WindowRecordIdentity(t.refs[x.ref]) = WindowRecordIdentity(PageRow(y.root))
    BY <2>1, <2>2 DEF ToldOK
  <2>4. PageRow(y.root).app = "none"
    BY DEF PageRow
  <2> QED
    BY <2>2, <2>3, <2>4, IdentityTells
<1> QED
  BY <1>1, <1>2

LEMMA AnchoredTold ==
  ASSUME NEW t, NEW b, TableOK(t), TabsOK(t, b), NEW e, Anchored(t, b, e),
         NEW x, x.ref = e.ref, x.root = e.root, x.by = "find" => FoundEntry(e) /\ Kept(t, b, e)
  PROVE  ToldOK(t, b, x)
<1>2. CASE e.root \in Pages
  <2>1. e.root \notin Windows
    BY <1>2, RootsAssumption
  <2> QED
    BY <1>2, <2>1 DEF Anchored, TabsOK, ToldOK
<1>3. CASE e.root \in Windows
  <2>1. e.root \notin Pages
    BY <1>3, RootsAssumption
  <2>2. e.ref \in DOMAIN t.refs /\ t.refs[e.ref].app = "app"
    BY <1>3 DEF Anchored
  <2>3. e.ref \in Nat /\ e.ref < t.next
    BY <2>2 DEF TableOK
  <2>4. ASSUME x.by = "find", IdOf[e.root] > 0 PROVE t.refs[e.ref].id = IdOf[e.root]
    <3>1. e.record.id = IdOf[e.root]
      BY <2>1, <2>4 DEF FoundEntry
    <3>2. WindowRecordIdentity(t.refs[e.ref]) = WindowRecordIdentity(e.record)
      BY <2>2, <2>4 DEF Kept
    <3> QED
      BY <2>4, <3>1, <3>2, IdentityTells
  <2> QED
    BY <1>3, <2>1, <2>2, <2>3, <2>4 DEF ToldOK
<1> QED
  BY <1>2, <1>3 DEF Anchored

\* Rows of find_roots that share a ref have one identity.
LEMMA RowsAgree ==
  ASSUME NEW t, NEW b, TabsOK(t, b), NEW e, Anchored(t, b, e), FoundEntry(e), Kept(t, b, e),
         NEW g, FoundEntry(g), Kept(t, b, g), e.ref = g.ref
  PROVE  WindowRecordIdentity(e.record) = WindowRecordIdentity(g.record)
<1>1. CASE e.root \in Windows
  BY <1>1 DEF Anchored, Kept
<1>2. CASE e.root \in Pages
  <2>1. b.context[g.ref] = e.root /\ g.ref \in DOMAIN b.context
    BY <1>2 DEF Anchored
  <2>2. g.root = e.root
    BY <2>1 DEF Kept
  <2>3. e.root \notin Windows
    BY <1>2, RootsAssumption
  <2>4. e.record = PageRow(e.root) /\ g.record = PageRow(g.root)
    BY <2>2, <2>3 DEF FoundEntry
  <2> QED
    BY <2>2, <2>4
<1> QED
  BY <1>1, <1>2 DEF Anchored

--------------------------------------------------------------------------------
(* Listings and root deltas.                                                 *)

LEMMA NamedByNames ==
  ASSUME NEW d, DeskOK(d), NEW o \in Orders(Unnamed(d, d.open)), NEW n, n = NamedBy(d, d.open, o)
  PROVE  /\ DeskOK(n) /\ n.open = d.open
         /\ \A w \in n.open : n.native[w] > 0
         /\ \A w \in Windows : d.native[w] > 0 => n.native[w] = d.native[w]
<1> DEFINE U == Unnamed(d, d.open)
           native == [w \in Windows |-> IF w \in U THEN d.minted + o[w] ELSE d.native[w]]
           minted == d.minted + Cardinality(U)
<1>1. /\ U \subseteq Windows /\ (\A w \in U : d.native[w] = 0) /\ \A w \in d.open : w \notin U => d.native[w] # 0
  BY DEF DeskOK, Unnamed
<1>2. Cardinality(U) \in Nat
  <2> HIDE DEF U
  <2> QED
    BY <1>1, RootsAssumption, FS_Subset, FS_CardinalityType
<1>3. \A w \in U : o[w] \in Nat /\ o[w] >= 1 /\ o[w] <= Cardinality(U)
  BY <1>2 DEF Orders
<1>4. \A v, w \in U : v # w => o[v] # o[w]
  BY DEF Orders
<1>5. n = [d EXCEPT !.native = native, !.minted = minted]
  BY DEF NamedBy
<1> HIDE DEF native, minted, U
<1>6. /\ DOMAIN n = {"open", "gone", "native", "minted"} /\ n.open = d.open /\ n.native = native /\ n.minted = minted
  BY <1>5 DEF DeskOK
<1>7. /\ d.minted \in Nat /\ d.open \subseteq Windows
      /\ \A w \in Windows : d.native[w] \in Nat /\ d.native[w] <= d.minted
      /\ \A v, w \in Windows : v # w /\ d.native[v] > 0 => d.native[v] # d.native[w]
  BY DEF DeskOK
<1>8. \A w \in Windows : native[w] = IF w \in U THEN d.minted + o[w] ELSE d.native[w]
  BY DEF native
<1>9. minted \in Nat /\ minted = d.minted + Cardinality(U)
  BY <1>2, <1>7 DEF minted
<1>10. ASSUME NEW w \in Windows PROVE native[w] \in Nat /\ native[w] <= minted
  <2>1. CASE w \in U
    <3>1. o[w] \in Nat /\ o[w] <= Cardinality(U) /\ native[w] = d.minted + o[w]
      BY <2>1, <1>3, <1>8
    <3> QED
      BY <3>1, <1>2, <1>7, <1>9
  <2>2. CASE w \notin U
    <3>1. native[w] = d.native[w] /\ d.native[w] \in Nat /\ d.native[w] <= d.minted
      BY <2>2, <1>7, <1>8
    <3> QED
      BY <3>1, <1>2, <1>7, <1>9
  <2> QED
    BY <2>1, <2>2
<1>11. ASSUME NEW v \in Windows, NEW w \in Windows, v # w, native[v] > 0 PROVE native[v] # native[w]
  <2>1. CASE v \in U /\ w \in U
    <3>1. o[v] \in Nat /\ o[w] \in Nat /\ o[v] # o[w] /\ native[v] = d.minted + o[v] /\ native[w] = d.minted + o[w]
      BY <2>1, <1>3, <1>4, <1>8, <1>11
    <3> QED
      BY <3>1, <1>7
  <2>2. CASE v \in U /\ w \notin U
    <3>1. o[v] \in Nat /\ o[v] >= 1 /\ native[v] = d.minted + o[v] /\ native[w] = d.native[w]
      BY <2>2, <1>3, <1>8
    <3>2. d.native[w] \in Nat /\ d.native[w] <= d.minted
      BY <1>7
    <3> QED
      BY <3>1, <3>2, <1>7
  <2>3. CASE v \notin U /\ w \in U
    <3>1. o[w] \in Nat /\ o[w] >= 1 /\ native[w] = d.minted + o[w] /\ native[v] = d.native[v]
      BY <2>3, <1>3, <1>8
    <3>2. d.native[v] \in Nat /\ d.native[v] <= d.minted
      BY <1>7
    <3> QED
      BY <3>1, <3>2, <1>7
  <2>4. CASE v \notin U /\ w \notin U
    <3>1. native[v] = d.native[v] /\ native[w] = d.native[w]
      BY <2>4, <1>8
    <3> QED
      BY <3>1, <1>7, <1>11
  <2> QED
    BY <2>1, <2>2, <2>3, <2>4
<1>12. native \in [Windows -> Nat]
  BY <1>10 DEF native
<1>13. DeskOK(n)
  BY <1>6, <1>7, <1>9, <1>10, <1>11, <1>12 DEF DeskOK
<1>14. ASSUME NEW w \in d.open PROVE native[w] > 0
  <2>0. w \in Windows
    BY <1>7
  <2>1. CASE w \in U
    <3>1. o[w] \in Nat /\ o[w] >= 1 /\ native[w] = d.minted + o[w]
      BY <2>0, <2>1, <1>3, <1>8
    <3> QED
      BY <3>1, <1>7
  <2>2. CASE w \notin U
    <3>1. native[w] = d.native[w] /\ d.native[w] # 0 /\ d.native[w] \in Nat
      BY <2>0, <2>2, <1>1, <1>7, <1>8
    <3> QED
      BY <3>1
  <2> QED
    BY <2>1, <2>2
<1>15. ASSUME NEW w \in Windows, d.native[w] > 0 PROVE native[w] = d.native[w]
  <2>1. d.native[w] # 0
    BY <1>15
  <2>2. w \notin U
    BY <2>1, <1>1
  <2> QED
    BY <2>2, <1>8
<1> QED
  BY <1>6, <1>13, <1>14, <1>15

\* What the desk keeps while no window closes and the helper lives.
DeskStays(d, n) ==
  /\ DeskOK(n) /\ d.open \subseteq n.open
  /\ \A w \in Windows : d.native[w] > 0 => n.native[w] = d.native[w]

LEMMA ListingNames ==
  ASSUME DeskOK(desk), NEW d \in Listings
  PROVE  /\ DeskOK(d) /\ d.open = desk.open /\ DeskStays(desk, d)
         /\ \A w \in d.open : d.native[w] > 0 /\ w \in Windows
<1>1. PICK o \in Orders(Unnamed(desk, desk.open)) : d = NamedBy(desk, desk.open, o)
  BY DEF Listings
<1> QED
  BY <1>1, NamedByNames DEF DeskStays, DeskOK

\* The window that is stored gets a ref that leads to it.
LEMMA StoredLeads ==
  ASSUME NEW t, TableOK(t), NEW d, DeskOK(d), NEW w \in Windows, WindowRecordIdentity(Row(d, w)) \in DOMAIN t.by,
         NEW r, r = RefIn(t, Row(d, w))
  PROVE  r \in DOMAIN t.refs /\ t.refs[r].app = "app" /\ WindowRecordIdentity(t.refs[r]) = WindowRecordIdentity(Row(d, w))
<1>1. r \in DOMAIN t.refs /\ WindowRecordIdentity(t.refs[r]) = WindowRecordIdentity(Row(d, w))
  BY DEF RefIn, TableOK
<1>2. Row(d, w).app = "app"
  BY DEF Row
<1> QED
  BY <1>1, <1>2, IdentityTells

LEMMA StoreRowOne ==
  ASSUME NEW t, NEW b, TableOK(t), TabsOK(t, b), NEW d, DeskOK(d), NEW w \in Windows,
         NEW n, n = StoreWindowRef(t, Row(d, w))
  PROVE  /\ Moves(t, b, n, b)
         /\ RefIn(n, Row(d, w)) \in DOMAIN n.refs /\ n.refs[RefIn(n, Row(d, w))].app = "app"
<1>1. GoodRecord(Row(d, w))
  BY RowGood
<1>2. TableOK(n) /\ Grows(t, n) /\ WindowRecordIdentity(Row(d, w)) \in DOMAIN n.by
  BY <1>1, StoreOne
<1>3. Moves(t, b, n, b)
  BY <1>2, TabsStay
<1> QED
  BY <1>2, <1>3, StoredLeads

\* modelRefForRootDelta.
LEMMA DeltaLeads ==
  ASSUME NEW t, NEW b, TableOK(t), TabsOK(t, b), NEW d, DeskOK(d), NEW w \in Windows, d.native[w] > 0,
         NEW s \in StoreRootDelta(t, d, w)
  PROVE  Moves(t, b, s.table, b) /\ s.ref \in DOMAIN s.table.refs /\ s.table.refs[s.ref].app = "app"
<1> DEFINE known == {r \in DOMAIN t.refs : t.refs[r].native = d.native[w]}
           row == [Row(d, w) EXCEPT !.id = 0]
           refs == Put(t.refs, t.next, row)
           by == Put(t.by, WindowRecordIdentity(row), t.next)
           n == [refs |-> refs, by |-> by, next |-> t.next + 1]
<1>1. CASE known # {}
  <2>1. PICK r \in known : s = [ref |-> r, table |-> t]
    BY <1>1 DEF StoreRootDelta
  <2>2. GoodRecord(t.refs[r])
    BY <2>1 DEF TableOK
  <2>3. t.refs[r].app = "app"
    BY <2>1, <2>2 DEF GoodRecord
  <2>4. s.ref = r /\ s.table = t
    BY <2>1
  <2> QED
    BY <2>1, <2>3, <2>4, MovesNot
<1>2. CASE known = {}
  <2>1. s = [ref |-> t.next, table |-> n]
    BY <1>2, Zenon DEF StoreRootDelta
  <2>2. row.app = "app" /\ row.id = 0 /\ row.native = d.native[w]
    BY DEF Row
  <2>3. d.native[w] \in Nat
    BY DEF DeskOK
  <2> HIDE DEF row
  <2>4. GoodRecord(row)
    BY <2>2, <2>3 DEF GoodRecord
  <2>5. t.next \in Nat /\ t.next + 1 \in Nat /\ t.next < t.next + 1 /\ t.next \notin DOMAIN t.refs
    BY DEF TableOK
  <2>6. /\ DOMAIN refs = DOMAIN t.refs \cup {t.next} /\ refs[t.next] = row
        /\ \A r \in DOMAIN t.refs : refs[r] = t.refs[r]
    BY <2>5 DEF Put
  <2>7. /\ DOMAIN by = DOMAIN t.by \cup {WindowRecordIdentity(row)} /\ by[WindowRecordIdentity(row)] = t.next
        /\ \A key \in DOMAIN t.by : key # WindowRecordIdentity(row) => by[key] = t.by[key]
    BY DEF Put
  <2>8. n.refs = refs /\ n.by = by /\ n.next = t.next + 1 /\ n = [refs |-> n.refs, by |-> n.by, next |-> n.next]
    OBVIOUS
  <2> HIDE DEF refs, by, n
  <2>9. ASSUME NEW r \in DOMAIN n.refs PROVE r \in Nat /\ r < n.next /\ GoodRecord(n.refs[r])
    <3>1. CASE r = t.next
      BY <3>1, <2>4, <2>5, <2>6, <2>8
    <3>2. CASE r \in DOMAIN t.refs
      <4>1. r \in Nat /\ r < t.next /\ GoodRecord(t.refs[r])
        BY <3>2 DEF TableOK
      <4> QED
        BY <3>2, <4>1, <2>5, <2>6, <2>8
    <3> QED
      BY <3>1, <3>2, <2>6, <2>8
  <2>10. ASSUME NEW key \in DOMAIN n.by PROVE n.by[key] \in DOMAIN n.refs /\ WindowRecordIdentity(n.refs[n.by[key]]) = key
    <3>1. CASE key = WindowRecordIdentity(row)
      BY <3>1, <2>6, <2>7, <2>8
    <3>2. CASE key # WindowRecordIdentity(row)
      <4>1. key \in DOMAIN t.by /\ n.by[key] = t.by[key]
        BY <3>2, <2>7, <2>8
      <4>2. t.by[key] \in DOMAIN t.refs /\ WindowRecordIdentity(t.refs[t.by[key]]) = key
        BY <4>1 DEF TableOK
      <4> QED
        BY <4>1, <4>2, <2>6, <2>8
    <3> QED
      BY <3>1, <3>2
  <2>11. TableOK(n)
    BY <2>5, <2>8, <2>9, <2>10 DEF TableOK
  <2>12. Grows(t, n)
    BY <2>5, <2>6, <2>7, <2>8 DEF Grows
  <2>13. Moves(t, b, n, b)
    BY <2>11, <2>12, TabsStay
  <2>14. s.ref = t.next /\ s.table = n
    BY <2>1
  <2> QED
    BY <2>2, <2>6, <2>8, <2>13, <2>14
<1> QED
  BY <1>1, <1>2

--------------------------------------------------------------------------------
(* What a step leaves as it was.                                             *)

LEMMA DeltaStays ==
  ASSUME NEW t, NEW n, Grows(t, n), NEW j, NEW s, DeltaOK(j, s, t)
  PROVE  DeltaOK(j, s, n)
<1> SUFFICES ASSUME NEW x \in j.delta
             PROVE  x.root \in Windows /\ (j.session = s => x.ref \in DOMAIN n.refs /\ n.refs[x.ref].app = "app")
  BY DEF DeltaOK
<1>1. x.root \in Windows /\ (j.session = s => x.ref \in DOMAIN t.refs /\ t.refs[x.ref].app = "app")
  BY DEF DeltaOK
<1>2. x.ref \in DOMAIN t.refs =>
        /\ x.ref \in DOMAIN n.refs
        /\ WindowRecordIdentity(n.refs[x.ref]) = WindowRecordIdentity(t.refs[x.ref])
  BY DEF Grows
<1> QED
  BY <1>1, <1>2, IdentityTells

LEMMA JobStays ==
  ASSUME NEW t, NEW b, NEW n, NEW c, Moves(t, b, n, c), NEW d, NEW e, DeskOK(d), DeskStays(d, e),
         NEW h, NEW g, \A p \in Pages : h[p] \subseteq g[p],
         NEW j, NEW s, JobOK(j, s, t, b, d, h)
  PROVE  JobOK(j, s, n, c, e, g)
<1>1. JobShape(j) /\ j.session <= s
  BY DEF JobOK
<1>2. ASSUME j.at = "pages", NEW x \in j.rows
      PROVE  FoundEntry(x) /\ x.root \in Windows /\ (j.session = s => Kept(n, c, x))
  <2>1. FoundEntry(x) /\ x.root \in Windows /\ (j.session = s => Kept(t, b, x))
    BY <1>2 DEF JobOK
  <2>2. x.ref \in Nat
    BY <2>1 DEF FoundEntry
  <2> QED
    BY <2>1, <2>2, KeptStays
<1>3. j.at = "snapshot" => j.page \in Pages /\ j.actor \in g[j.page]
  BY DEF JobOK
<1>4. j.at = "resolve" => GoodRecord(j.record)
  BY DEF JobOK
<1>5. j.at = "resolve" => \A v \in j.named : v \in e.open /\ IdOf[v] > 0 /\ j.record.id = IdOf[v] /\ j.record.app = "app"
  BY DEF JobOK, DeskStays
<1>6. j.at \in {"look", "deliver"} /\ j.session = s => j.target.ref \in DOMAIN n.refs /\ n.refs[j.target.ref].app = "app"
  <2> SUFFICES ASSUME j.at \in {"look", "deliver"}, j.session = s
               PROVE  j.target.ref \in DOMAIN n.refs /\ n.refs[j.target.ref].app = "app"
    OBVIOUS
  <2>1. j.target.ref \in DOMAIN t.refs /\ t.refs[j.target.ref].app = "app"
    BY DEF JobOK
  <2>2. /\ j.target.ref \in DOMAIN n.refs
        /\ WindowRecordIdentity(n.refs[j.target.ref]) = WindowRecordIdentity(t.refs[j.target.ref])
    BY <2>1 DEF Moves, Grows
  <2> QED
    BY <2>1, <2>2, IdentityTells
<1>7. j.at \in {"aim", "deliver"} => j.named = {}
  BY DEF JobOK
<1>9. DeltaOK(j, s, n)
  <2>1. DeltaOK(j, s, t)
    BY DEF JobOK
  <2> QED
    BY <2>1, DeltaStays DEF Moves
<1>8. j.at = "look" => \A v \in j.named : v \in e.open /\ e.native[v] > 0 /\ e.native[v] = j.target.native
  <2> SUFFICES ASSUME j.at = "look", NEW v \in j.named
               PROVE  v \in e.open /\ e.native[v] > 0 /\ e.native[v] = j.target.native
    OBVIOUS
  <2>1. v \in d.open /\ d.native[v] > 0 /\ d.native[v] = j.target.native
    BY DEF JobOK
  <2>2. v \in Windows
    BY <2>1 DEF DeskOK
  <2> QED
    BY <2>1, <2>2 DEF DeskStays
<1> QED
  BY <1>1, <1>2, <1>3, <1>4, <1>5, <1>6, <1>7, <1>8, <1>9 DEF JobOK

\* A step within a session: tables grow, and who once had a page has had it.
GoesOn ==
  /\ Moves(table, tabs, table', tabs') /\ OwnersOK' /\ HadOK'
  /\ \A p \in Pages : had[p] \subseteq had'[p]
  /\ BranchOK' /\ branch'.session = branch.session

LEMMA LogStays ==
  ASSUME RootsInv, GoesOn, branch'.log = branch.log
  PROVE  LogInv'
<1> DEFINE log == branch.log
<1>1. LogOK(log) /\ \A e \in FoundIn(log) : Kept(table, tabs, e)
  BY DEF RootsInv, LogInv
<1>2. \A e \in FoundIn(log) : e.ref \in Nat
  BY <1>1 DEF LogOK, FoundEntry
<1> HIDE DEF log
<1>3. \A e \in FoundIn(log) : Kept(table', tabs', e)
  BY <1>1, <1>2, KeptStays DEF GoesOn
<1>4. branch'.log = log
  BY DEF log
<1> QED
  BY <1>1, <1>3, <1>4 DEF LogInv

LEMMA ToldAllStay ==
  ASSUME RootsInv, GoesOn
  PROVE  /\ \A x \in Told : x.session \in Nat /\ x.session <= branch'.session
         /\ \A x \in Told : Meant(x)' => ToldOK(table', tabs', x)
         /\ \A x \in Told : x.root \in Pages => x.actor \in had'[x.root]
<1>1. \A x \in Told : x.session \in Nat /\ x.session <= branch'.session
  BY DEF RootsInv, ToldInv, GoesOn
<1>2. ASSUME NEW x \in Told, Meant(x)' PROVE ToldOK(table', tabs', x)
  <2>1. Meant(x)
    BY <1>2 DEF Meant, GoesOn
  <2>2. ToldOK(table, tabs, x)
    BY <2>1 DEF RootsInv, ToldInv
  <2> QED
    BY <2>2, ToldStays DEF GoesOn
<1>3. \A x \in Told : x.root \in Pages => x.actor \in had[x.root]
  BY DEF RootsInv, ToldInv, OwnPagesOnly
<1>4. \A x \in Told : x.root \in Pages => x.actor \in had'[x.root]
  BY <1>3 DEF GoesOn
<1> QED
  BY <1>1, <1>2, <1>4

LEMMA ToldStaysAsItWas ==
  ASSUME RootsInv, GoesOn, branch'.log = branch.log
  PROVE  ToldInv'
<1>1. Told' = Told
  BY DEF Told
<1>2. RefsApart'
  BY <1>1 DEF RootsInv, ToldInv, RefsApart
<1>3. /\ \A x \in Told : x.session \in Nat /\ x.session <= branch'.session
      /\ \A x \in Told : Meant(x)' => ToldOK(table', tabs', x)
      /\ \A x \in Told : x.root \in Pages => x.actor \in had'[x.root]
  BY ToldAllStay
<1> QED
  BY <1>1, <1>2, <1>3 DEF ToldInv, OwnPagesOnly

LEMMA JobsAfter ==
  ASSUME RootsInv, GoesOn, DeskStays(desk, desk'), NEW c \in RootCalls, NEW j, jobs' = [jobs EXCEPT ![c] = j],
         j = NoJob \/ JobOK(j, branch.session, table', tabs', desk', had')
  PROVE  jobs' = [x \in RootCalls |-> jobs'[x]] /\ JobsInv'
<1>1. jobs = [x \in RootCalls |-> jobs[x]] /\ DeskOK(desk)
  BY DEF RootsInv
<1>2. /\ jobs' = [x \in RootCalls |-> jobs'[x]] /\ jobs'[c] = j
      /\ \A x \in RootCalls : x # c => jobs'[x] = jobs[x]
  BY <1>1
<1>3. ASSUME NEW x \in RootCalls
      PROVE  jobs'[x] = NoJob \/ JobOK(jobs'[x], branch'.session, table', tabs', desk', had')
  <2>1. CASE x = c
    BY <2>1, <1>2 DEF GoesOn
  <2>2. CASE x # c
    <3>1. jobs'[x] = jobs[x]
      BY <2>2, <1>2
    <3>2. jobs[x] = NoJob \/ JobOK(jobs[x], branch.session, table, tabs, desk, had)
      BY DEF RootsInv, JobsInv
    <3>3. JobOK(jobs[x], branch.session, table, tabs, desk, had) => JobOK(jobs[x], branch.session, table', tabs', desk', had')
      BY <1>1, JobStays DEF GoesOn
    <3> QED
      BY <3>1, <3>2, <3>3 DEF GoesOn
  <2> QED
    BY <2>1, <2>2
<1> QED
  BY <1>2, <1>3 DEF JobsInv

LEMMA JobsUntouched ==
  ASSUME RootsInv, GoesOn, DeskStays(desk, desk'), jobs' = jobs
  PROVE  jobs' = [x \in RootCalls |-> jobs'[x]] /\ JobsInv'
<1>1. jobs = [x \in RootCalls |-> jobs[x]] /\ DeskOK(desk)
  BY DEF RootsInv
<1>2. ASSUME NEW x \in RootCalls
      PROVE  jobs'[x] = NoJob \/ JobOK(jobs'[x], branch'.session, table', tabs', desk', had')
  <2>1. jobs[x] = NoJob \/ JobOK(jobs[x], branch.session, table, tabs, desk, had)
    BY DEF RootsInv, JobsInv
  <2>2. JobOK(jobs[x], branch.session, table, tabs, desk, had) => JobOK(jobs[x], branch.session, table', tabs', desk', had')
    BY <1>1, JobStays DEF GoesOn
  <2> QED
    BY <2>1, <2>2 DEF GoesOn
<1> QED
  BY <1>1, <1>2 DEF JobsInv

\* A step that tells nobody anything.
LEMMA QuietStep ==
  ASSUME RootsInv, GoesOn, DeskStays(desk, desk'), branch'.log = branch.log,
         NEW c \in RootCalls, NEW j, jobs' = [jobs EXCEPT ![c] = j],
         j = NoJob \/ JobOK(j, branch.session, table', tabs', desk', had')
  PROVE  RootsInv'
<1>1. LogInv' /\ ToldInv'
  BY LogStays, ToldStaysAsItWas
<1>2. jobs' = [x \in RootCalls |-> jobs'[x]] /\ JobsInv'
  BY JobsAfter
<1>3. DeskOK(desk') /\ TablesOK' /\ HadOK' /\ OwnersOK' /\ BranchOK'
  BY DEF GoesOn, Moves, TablesOK, DeskStays
<1> QED
  BY <1>1, <1>2, <1>3 DEF RootsInv

LEMMA QuietEvent ==
  ASSUME RootsInv, GoesOn, DeskStays(desk, desk'), branch'.log = branch.log, jobs' = jobs
  PROVE  RootsInv'
<1>1. LogInv' /\ ToldInv'
  BY LogStays, ToldStaysAsItWas
<1>2. jobs' = [x \in RootCalls |-> jobs'[x]] /\ JobsInv'
  BY JobsUntouched
<1>3. DeskOK(desk') /\ TablesOK' /\ HadOK' /\ OwnersOK' /\ BranchOK'
  BY DEF GoesOn, Moves, TablesOK, DeskStays
<1> QED
  BY <1>1, <1>2, <1>3 DEF RootsInv

\* Only the tables change.
LEMMA TablesGoOn ==
  ASSUME RootsInv, Moves(table, tabs, table', tabs'), tabs'.owner = tabs.owner, had' = had,
         BranchOK', branch'.session = branch.session
  PROVE  GoesOn
<1>1. HadOK' /\ OwnersOK' /\ \A p \in Pages : had[p] \subseteq had'[p]
  BY DEF RootsInv, HadOK, OwnersOK
<1> QED
  BY <1>1 DEF GoesOn

LEMMA DeskAsItWas ==
  ASSUME RootsInv, desk' = desk
  PROVE  DeskStays(desk, desk')
BY DEF RootsInv, DeskStays

--------------------------------------------------------------------------------
(* Calls that begin.                                                         *)

LEMMA BranchMoves ==
  ASSUME BranchOK
  PROVE  /\ branch' = [branch EXCEPT !.calls = @ + 1] => BranchOK' /\ branch'.session = branch.session /\ branch'.log = branch.log
         /\ branch' = [branch EXCEPT !.events = @ + 1] => BranchOK' /\ branch'.session = branch.session /\ branch'.log = branch.log
         /\ branch' = branch => BranchOK' /\ branch'.session = branch.session /\ branch'.log = branch.log
BY DEF BranchOK

LEMMA NewJobIs ==
  ASSUME BranchOK, NEW a, NEW at \in {"pages", "snapshot", "resolve", "look", "aim", "deliver"}, NEW j, j = NewJob(at, a)
  PROVE  JobShape(j) /\ j.at = at /\ j.actor = a /\ j.session = branch.session /\ j.named = {} /\ j.delta = {}
BY DEF NewJob, JobShape, BranchOK

LEMMA FindWindowsStep ==
  ASSUME RootsInv, NEW c \in RootCalls, NEW a \in RootActors, FindWindows(c, a)
  PROVE  RootsInv'
<1>1. PICK d \in Listings :
        /\ desk' = d /\ table' = StoreEach(table, d, d.open)
        /\ Starts(c, [NewJob("pages", a) EXCEPT
             !.rows = {[ref |-> RefIn(table', Row(d, w)), root |-> w, record |-> Row(d, w)] : w \in d.open}])
  BY DEF FindWindows
<1>2. tabs' = tabs /\ had' = had
  BY DEF FindWindows
<1>3. DeskOK(desk) /\ TableOK(table) /\ TabsOK(table, tabs) /\ BranchOK
  BY DEF RootsInv, TablesOK
<1>4. DeskOK(d) /\ DeskStays(desk, d) /\ d.open \subseteq Windows
  BY <1>3, ListingNames
<1>5. /\ TableOK(table') /\ Grows(table, table')
      /\ \A w \in d.open : WindowRecordIdentity(Row(d, w)) \in DOMAIN table'.by
  BY <1>1, <1>3, <1>4, StoreEachGrows
<1>6. Moves(table, tabs, table', tabs')
  BY <1>2, <1>3, <1>5, TabsStay
<1> DEFINE rows == {[ref |-> RefIn(table', Row(d, w)), root |-> w, record |-> Row(d, w)] : w \in d.open}
<1>7. ASSUME NEW e \in rows PROVE FoundEntry(e) /\ e.root \in Windows /\ Kept(table', tabs, e)
  <2>1. PICK w \in d.open : e = [ref |-> RefIn(table', Row(d, w)), root |-> w, record |-> Row(d, w)]
    OBVIOUS
  <2>2. e.ref = RefIn(table', Row(d, w)) /\ e.root = w /\ e.record = Row(d, w) /\ w \in Windows
    BY <2>1, <1>4
  <2>3. /\ e.ref \in DOMAIN table'.refs
        /\ WindowRecordIdentity(table'.refs[e.ref]) = WindowRecordIdentity(e.record)
    BY <2>2, <1>4, <1>5, StoredLeads
  <2>4. e.record.app = "app" /\ e.record.id = IdOf[w] /\ e.record.native \in Nat
    BY <2>2, <1>4, RowGood DEF GoodRecord
  <2>5. e.ref \in Nat /\ e.ref < table'.next
    BY <2>3, <1>5 DEF TableOK
  <2>6. e.ref \notin DOMAIN tabs.context
    BY <2>3, <1>2, <1>6 DEF Moves, TabsOK
  <2> QED
    BY <2>2, <2>3, <2>4, <2>5, <2>6 DEF FoundEntry, Kept
<1> DEFINE j == [NewJob("pages", a) EXCEPT !.rows = rows]
<1>8. jobs' = [jobs EXCEPT ![c] = j] /\ branch' = [branch EXCEPT !.calls = @ + 1]
  BY <1>1 DEF Starts
<1>9. JobShape(j) /\ j.at = "pages" /\ j.rows = rows /\ j.delta = {} /\ j.session = branch.session
  <2> HIDE DEF rows
  <2> QED
    BY <1>3, NewJobIs DEF JobShape
<1> HIDE DEF j, rows
<1>10. JobOK(j, branch.session, table', tabs', desk', had')
  BY <1>2, <1>3, <1>7, <1>9 DEF JobOK, DeltaOK, BranchOK
<1>11. GoesOn
  BY <1>2, <1>3, <1>6, <1>8, BranchMoves, TablesGoOn
<1>12. branch'.log = branch.log
  BY <1>3, <1>8, BranchMoves
<1> QED
  BY <1>1, <1>2, <1>4, <1>8, <1>10, <1>11, <1>12, QuietStep

LEMMA ObserveStep ==
  ASSUME RootsInv, NEW c \in RootCalls, NEW a \in RootActors, NEW r \in {x.ref : x \in Told}, Observe(c, a, r)
  PROVE  RootsInv'
<1>1. desk' = desk /\ table' = table /\ tabs' = tabs /\ had' = had
  BY DEF Observe
<1>2. DeskOK(desk) /\ TableOK(table) /\ TabsOK(table, tabs) /\ BranchOK /\ OwnersOK
  BY DEF RootsInv, TablesOK
<1> DEFINE page == [NewJob("snapshot", a) EXCEPT !.page = tabs.context[r]]
           window == [NewJob("resolve", a) EXCEPT !.record = table.refs[r], !.named = FoundFor(r)]
<1>3. \/ /\ r \in DOMAIN tabs.context /\ tabs.context[r] \in DOMAIN tabs.owner /\ tabs.owner[tabs.context[r]] = a
         /\ Starts(c, page)
      \/ r \in DOMAIN table.refs /\ Starts(c, window)
  BY DEF Observe
<1>4. ASSUME r \in DOMAIN tabs.context, tabs.context[r] \in DOMAIN tabs.owner, tabs.owner[tabs.context[r]] = a
      PROVE  JobOK(page, branch.session, table, tabs, desk, had)
  <2>1. JobShape(page) /\ page.at = "snapshot" /\ page.delta = {} /\ page.actor = a /\ page.page = tabs.context[r] /\ page.session = branch.session
    BY <1>2, NewJobIs DEF JobShape
  <2>2. tabs.context[r] \in Pages /\ a \in had[tabs.context[r]]
    BY <1>2, <1>4 DEF OwnersOK
  <2> HIDE DEF page
  <2> QED
    BY <1>2, <2>1, <2>2 DEF JobOK, DeltaOK, BranchOK
<1>5. ASSUME r \in DOMAIN table.refs PROVE JobOK(window, branch.session, table, tabs, desk, had)
  <2> DEFINE named == FoundFor(r)
             record == table.refs[r]
  <2> HIDE DEF named, record
  <2>0. [NewJob("resolve", a) EXCEPT !.record = record, !.named = named] = window
    BY DEF named, record
  <2>1. /\ JobShape(window) /\ window.at = "resolve" /\ window.record = record /\ window.named = named
        /\ window.session = branch.session /\ window.delta = {}
    <3> DEFINE n == NewJob("resolve", a)
    <3>1. JobShape(n) /\ n.at = "resolve" /\ n.delta = {} /\ n.session = branch.session
      BY <1>2, NewJobIs
    <3>2. window = [n EXCEPT !.record = record, !.named = named]
      BY <2>0
    <3> HIDE DEF window, n
    <3> QED
      BY <3>1, <3>2 DEF JobShape
  <2> HIDE DEF window
  <2>2. GoodRecord(record)
    BY <1>2, <1>5 DEF TableOK, record
  <2>3. ASSUME NEW v \in named PROVE v \in desk.open /\ IdOf[v] > 0 /\ record.id = IdOf[v] /\ record.app = "app"
    <3>1. PICK y \in Told : y.ref = r /\ y.by = "find" /\ y.root \in Windows /\ v = y.root
      BY DEF named, FoundFor
    <3>2. v \in desk.open /\ IdOf[v] > 0
      BY DEF named, FoundFor
    <3>3. ToldOK(table, tabs, y)
      BY <3>1 DEF RootsInv, ToldInv, Meant
    <3> QED
      BY <3>1, <3>2, <3>3 DEF ToldOK, record
  <2> QED
    BY <1>2, <2>1, <2>2, <2>3 DEF JobOK, DeltaOK, BranchOK
<1>6. Moves(table, tabs, table', tabs') /\ DeskStays(desk, desk')
  BY <1>1, <1>2, MovesNot, DeskAsItWas
<1> HIDE DEF page, window
<1>7. \E j : JobOK(j, branch.session, table, tabs, desk, had) /\ Starts(c, j)
  BY <1>3, <1>4, <1>5
<1>8. PICK j : JobOK(j, branch.session, table, tabs, desk, had) /\ Starts(c, j)
  BY <1>7
<1>9. jobs' = [jobs EXCEPT ![c] = j] /\ branch' = [branch EXCEPT !.calls = @ + 1]
  BY <1>8 DEF Starts
<1>10. GoesOn
  BY <1>1, <1>2, <1>6, <1>9, BranchMoves, TablesGoOn
<1>11. branch'.log = branch.log
  BY <1>2, <1>9, BranchMoves
<1> QED
  BY <1>1, <1>6, <1>8, <1>9, <1>10, <1>11, QuietStep

LEMMA FrontOpen ==
  ASSUME NEW d, NEW w \in FrontMatches(d)
  PROVE  w \in d.open
BY DEF FrontMatches

LEMMA ObserveFrontStep ==
  ASSUME RootsInv, NEW c \in RootCalls, NEW a \in RootActors, ObserveFront(c, a)
  PROVE  RootsInv'
<1>0. PICK d \in Listings :
        \E w \in FrontMatches(d) :
          /\ desk' = d /\ table' = StoreWindowRef(table, Row(d, w))
          /\ Starts(c, [NewJob("look", a) EXCEPT !.target = Target(d, table', w)])
  BY DEF ObserveFront
<1>1. PICK w \in FrontMatches(d) :
        /\ desk' = d /\ table' = StoreWindowRef(table, Row(d, w))
        /\ Starts(c, [NewJob("look", a) EXCEPT !.target = Target(d, table', w)])
  BY <1>0
<1>2. tabs' = tabs /\ had' = had
  BY DEF ObserveFront
<1>3. DeskOK(desk) /\ TableOK(table) /\ TabsOK(table, tabs) /\ BranchOK
  BY DEF RootsInv, TablesOK
<1>4. DeskOK(d) /\ DeskStays(desk, d) /\ w \in Windows
  BY <1>3, ListingNames, FrontOpen DEF DeskOK
<1>5. /\ Moves(table, tabs, table', tabs)
      /\ RefIn(table', Row(d, w)) \in DOMAIN table'.refs /\ table'.refs[RefIn(table', Row(d, w))].app = "app"
  BY <1>1, <1>3, <1>4, StoreRowOne
<1> DEFINE target == Target(d, table', w)
           j == [NewJob("look", a) EXCEPT !.target = target]
<1>6. target.ref = RefIn(table', Row(d, w))
  BY DEF Target
<1>7. jobs' = [jobs EXCEPT ![c] = j] /\ branch' = [branch EXCEPT !.calls = @ + 1]
  BY <1>1 DEF Starts
<1> HIDE DEF target
<1>8. JobShape(j) /\ j.at = "look" /\ j.target = target /\ j.named = {} /\ j.delta = {} /\ j.session = branch.session
  BY <1>3, NewJobIs DEF JobShape
<1> HIDE DEF j
<1>9. JobOK(j, branch.session, table', tabs', desk', had')
  BY <1>2, <1>3, <1>5, <1>6, <1>8 DEF JobOK, DeltaOK, BranchOK
<1>10. GoesOn
  BY <1>2, <1>3, <1>5, <1>7, BranchMoves, TablesGoOn
<1>11. branch'.log = branch.log
  BY <1>3, <1>7, BranchMoves
<1> QED
  BY <1>1, <1>2, <1>4, <1>7, <1>9, <1>10, <1>11, QuietStep

LEMMA LaunchStep ==
  ASSUME RootsInv, NEW c \in RootCalls, NEW a \in RootActors, NEW p \in Pages, Launch(c, a, p)
  PROVE  RootsInv'
<1>1. /\ had[p] = {} /\ tabs' = [tabs EXCEPT !.owner = Put(@, p, a)] /\ had' = [had EXCEPT ![p] = {a}]
      /\ Starts(c, [NewJob("snapshot", a) EXCEPT !.page = p])
      /\ desk' = desk /\ table' = table
  BY DEF Launch
<1>2. TableOK(table) /\ TabsOK(table, tabs) /\ BranchOK /\ OwnersOK /\ HadOK
  BY DEF RootsInv, TablesOK
<1>3. tabs = [root |-> tabs.root, context |-> tabs.context, owner |-> tabs.owner]
  BY <1>2 DEF TabsOK
<1> DEFINE owner == Put(tabs.owner, p, a)
<1>4. DOMAIN owner = DOMAIN tabs.owner \cup {p} /\ owner[p] = a /\ \A q \in DOMAIN tabs.owner : q # p => owner[q] = tabs.owner[q]
  BY DEF Put
<1>5. tabs' = [tabs EXCEPT !.owner = owner]
  BY <1>1
<1> HIDE DEF owner
<1>6. tabs' = [root |-> tabs.root, context |-> tabs.context, owner |-> owner]
  BY <1>3, <1>5
<1>7. tabs'.root = tabs.root /\ tabs'.context = tabs.context /\ tabs'.owner = owner
  BY <1>6
<1>8. TabsOK(table, tabs')
  BY <1>2, <1>6, <1>7 DEF TabsOK
<1>9. Moves(table, tabs, table', tabs')
  BY <1>1, <1>2, <1>7, <1>8, GrowsItself DEF Moves
<1>10. HadOK' /\ had'[p] = {a} /\ \A q \in Pages : q # p => had'[q] = had[q]
  BY <1>1, <1>2 DEF HadOK
<1>11. \A q \in Pages : had[q] \subseteq had'[q]
  BY <1>1, <1>10
<1>12. OwnersOK'
  <2> SUFFICES ASSUME NEW q \in DOMAIN tabs'.owner PROVE q \in Pages /\ tabs'.owner[q] \in had'[q]
    BY DEF OwnersOK
  <2>1. CASE q = p
    BY <2>1, <1>4, <1>7, <1>10
  <2>2. CASE q # p
    BY <2>2, <1>2, <1>4, <1>7, <1>10 DEF OwnersOK
  <2> QED
    BY <2>1, <2>2
<1> DEFINE j == [NewJob("snapshot", a) EXCEPT !.page = p]
<1>13. jobs' = [jobs EXCEPT ![c] = j] /\ branch' = [branch EXCEPT !.calls = @ + 1]
  BY <1>1 DEF Starts
<1>14. JobShape(j) /\ j.at = "snapshot" /\ j.page = p /\ j.delta = {} /\ j.actor = a /\ j.session = branch.session
  BY <1>2, NewJobIs DEF JobShape
<1> HIDE DEF j
<1>15. JobOK(j, branch.session, table', tabs', desk', had')
  BY <1>2, <1>10, <1>14 DEF JobOK, DeltaOK, BranchOK
<1>16. GoesOn /\ branch'.log = branch.log
  BY <1>2, <1>9, <1>10, <1>11, <1>12, <1>13, BranchMoves DEF GoesOn
<1>17. DeskStays(desk, desk')
  BY <1>1, DeskAsItWas
<1> QED
  BY <1>1, <1>13, <1>15, <1>16, <1>17, QuietStep

LEMMA ActStep ==
  ASSUME RootsInv, NEW c \in RootCalls, NEW a \in RootActors, NEW t, Act(c, a, t)
  PROVE  RootsInv'
<1>1. desk' = desk /\ table' = table /\ tabs' = tabs /\ had' = had
  BY DEF Act
<1>2. DeskOK(desk) /\ TableOK(table) /\ TabsOK(table, tabs) /\ BranchOK
  BY DEF RootsInv, TablesOK
<1> DEFINE j == [NewJob("aim", a) EXCEPT !.base = t]
<1>3. jobs' = [jobs EXCEPT ![c] = j] /\ branch' = [branch EXCEPT !.calls = @ + 1]
  BY DEF Act, Starts
<1>4. JobShape(j) /\ j.at = "aim" /\ j.named = {} /\ j.delta = {} /\ j.session = branch.session
  BY <1>2, NewJobIs DEF JobShape
<1> HIDE DEF j
<1>5. JobOK(j, branch.session, table', tabs', desk', had')
  BY <1>2, <1>4 DEF JobOK, DeltaOK, BranchOK
<1>6. Moves(table, tabs, table', tabs') /\ DeskStays(desk, desk')
  BY <1>1, <1>2, MovesNot, DeskAsItWas
<1>7. GoesOn /\ branch'.log = branch.log
  BY <1>1, <1>2, <1>3, <1>6, BranchMoves, TablesGoOn
<1> QED
  BY <1>1, <1>3, <1>5, <1>6, <1>7, QuietStep

--------------------------------------------------------------------------------
(* Answers.                                                                  *)

LEMMA JobAt ==
  ASSUME RootsInv, NEW c \in RootCalls, jobs[c].at # "idle"
  PROVE  JobOK(jobs[c], branch.session, table, tabs, desk, had) /\ JobShape(jobs[c])
<1>1. NoJob.at = "idle"
  BY DEF NoJob
<1> QED
  BY <1>1 DEF RootsInv, JobsInv, JobOK

LEMMA ToldExtends ==
  ASSUME RootsInv, GoesOn, NEW new, Told' = Told \cup new,
         \A x \in new : /\ Anchored(table', tabs', x) /\ ToldOK(table', tabs', x) /\ x.session = branch.session
                        /\ x.root \in Pages => x.actor \in had'[x.root]
  PROVE  ToldInv'
<1>1. /\ \A x \in Told : x.session \in Nat /\ x.session <= branch'.session
      /\ \A x \in Told : Meant(x)' => ToldOK(table', tabs', x)
      /\ \A x \in Told : x.root \in Pages => x.actor \in had'[x.root]
  BY ToldAllStay
<1>2. branch'.session = branch.session /\ branch.session \in Nat
  BY DEF GoesOn, RootsInv, BranchOK
<1>3. \A x \in Told' : x.session \in Nat /\ x.session <= branch'.session
  BY <1>1, <1>2
<1>4. \A x \in Told' : Meant(x)' => ToldOK(table', tabs', x)
  BY <1>1
<1>5. OwnPagesOnly'
  BY <1>1 DEF OwnPagesOnly
<1>6. ASSUME NEW x \in Told', NEW y \in Told', x.ref = y.ref, Holds(x, y), x.root \in Pages \/ y.root \in Pages
      PROVE  y.root = x.root
  <2>0. TabsOK(table', tabs')
    BY DEF GoesOn, Moves
  <2>1. CASE x \in new
    <3>1. y.session = branch'.session
      BY <2>1, <1>2, <1>3, <1>6 DEF Holds
    <3>2. ToldOK(table', tabs', y)
      BY <3>1, <1>4, <1>6 DEF Meant
    <3> QED
      BY <2>0, <2>1, <3>2, <1>6, AnchoredApart
  <2>2. CASE y \in new
    <3>1. x.session = branch'.session \/ x.by = "find"
      BY <2>2, <1>2, <1>6 DEF Holds
    <3>2. ToldOK(table', tabs', x)
      BY <3>1, <1>4, <1>6 DEF Meant
    <3> QED
      BY <2>0, <2>2, <3>2, <1>6, AnchoredApart
  <2>3. CASE x \in Told /\ y \in Told
    BY <2>3, <1>6 DEF RootsInv, ToldInv, RefsApart
  <2> QED
    BY <2>1, <2>2, <2>3
<1>7. RefsApart'
  BY <1>6 DEF RefsApart
<1> QED
  BY <1>3, <1>4, <1>5, <1>7 DEF ToldInv

\* A result whose rows are good for the tables of the next state.
GoodResult(x) ==
  x.kind = "find" => \A e \in x.entries : Anchored(table', tabs', e) /\ FoundEntry(e) /\ Kept(table', tabs', e)

LEMMA LogExtends ==
  ASSUME RootsInv, GoesOn, NEW x, branch'.log = Append(branch.log, x),
         GoodResult(x)
  PROVE  LogInv'
<1> DEFINE log == branch.log
           l == Append(log, x)
<1>1. LogOK(log) /\ \A e \in FoundIn(log) : Kept(table, tabs, e)
  BY DEF RootsInv, LogInv
<1>2. log \in Seq(Range(log)) /\ Len(log) \in Nat
  BY <1>1 DEF LogOK
<1> HIDE DEF log
<1>3. /\ l \in Seq(Range(l)) /\ Len(l) = Len(log) + 1 /\ l[Len(log) + 1] = x
      /\ \A k \in 1 .. Len(log) : l[k] = log[k]
      /\ \A e : e \in FoundIn(l) <=> e \in FoundIn(log) \/ (x.kind = "find" /\ e \in x.entries)
  BY <1>2, LongerLog
<1>4. branch'.log = l
  BY DEF log
<1> HIDE DEF l
<1>5. \A e \in FoundIn(log) : FoundEntry(e) /\ e.ref \in Nat
  BY <1>1 DEF LogOK, FoundEntry
<1>6. \A e \in FoundIn(log) : Kept(table', tabs', e)
  BY <1>1, <1>5, KeptStays DEF GoesOn
<1>7. \A e \in FoundIn(l) : FoundEntry(e) /\ Kept(table', tabs', e)
  BY <1>3, <1>5, <1>6 DEF GoodResult
<1>8. ASSUME NEW e \in FoundIn(l), NEW g \in FoundIn(l), e.ref = g.ref
      PROVE  WindowRecordIdentity(e.record) = WindowRecordIdentity(g.record)
  <2>0. TabsOK(table', tabs')
    BY DEF GoesOn, Moves
  <2>1. CASE e \in FoundIn(log) /\ g \in FoundIn(log)
    BY <2>1, <1>1, <1>8 DEF LogOK
  <2>2. CASE x.kind = "find" /\ e \in x.entries
    BY <2>0, <2>2, <1>7, <1>8, RowsAgree DEF GoodResult
  <2>3. CASE x.kind = "find" /\ g \in x.entries
    BY <2>0, <2>3, <1>7, <1>8, RowsAgree DEF GoodResult
  <2> QED
    BY <1>3, <2>1, <2>2, <2>3
<1>9. LogOK(l)
  BY <1>3, <1>7, <1>8 DEF LogOK
<1> QED
  BY <1>4, <1>7, <1>9 DEF LogInv

\* A result adds what it says.
LEMMA TellsMore ==
  ASSUME NEW x, branch.log \in Seq(Range(branch.log)), branch'.log = Append(branch.log, x)
  PROVE  Told' = Told \cup Says(x)
<1> DEFINE log == branch.log
           l == Append(log, x)
<1>1. Len(log) \in Nat
  OBVIOUS
<1>2. Len(l) = Len(log) + 1 /\ l[Len(log) + 1] = x /\ (\A k \in 1 .. Len(log) : l[k] = log[k])
  BY <1>1
<1>3. Told' = UNION {Says(l[k]) : k \in 1 .. Len(l)} /\ Told = UNION {Says(log[k]) : k \in 1 .. Len(log)}
  BY DEF Told, Says
<1> HIDE DEF l, log
<1>4. ASSUME NEW y PROVE y \in Told' <=> y \in Told \cup Says(x)
  <2>1. \A k \in 1 .. Len(l) : k \in 1 .. Len(log) \/ k = Len(log) + 1
    BY <1>1, <1>2
  <2>2. (\A k \in 1 .. Len(log) : k \in 1 .. Len(l)) /\ Len(log) + 1 \in 1 .. Len(l)
    BY <1>1, <1>2
  <2>3. y \in Told' <=> \E k \in 1 .. Len(l) : y \in Says(l[k])
    BY <1>3
  <2>4. y \in Told <=> \E k \in 1 .. Len(log) : y \in Says(log[k])
    BY <1>3
  <2> QED
    BY <1>2, <2>1, <2>2, <2>3, <2>4
<1> QED
  BY <1>4

LEMMA AnswersKeep ==
  ASSUME RootsInv, NEW c \in RootCalls, NEW entries, NEW kind, Answers(c, entries, kind),
         Moves(table, tabs, table', tabs'), tabs'.owner = tabs.owner, desk' = desk, had' = had,
         jobs[c].session = branch.session =>
           \A e \in entries : /\ Anchored(table', tabs', e)
                              /\ e.root \in Pages => jobs[c].actor \in had[e.root]
                              /\ kind = "find" => FoundEntry(e) /\ Kept(table', tabs', e)
  PROVE  RootsInv'
<1>1. jobs' = [jobs EXCEPT ![c] = NoJob]
  BY DEF Answers, Returns
<1>2. DeskStays(desk, desk')
  BY DeskAsItWas
<1>3. BranchOK
  BY DEF RootsInv
<1>4. CASE jobs[c].session # branch.session
  <2>1. branch' = branch
    BY <1>4 DEF Answers
  <2>2. GoesOn /\ branch'.log = branch.log
    BY <2>1, <1>3, BranchMoves, TablesGoOn
  <2> QED
    BY <1>1, <1>2, <2>2, QuietStep
<1>5. CASE jobs[c].session = branch.session
  <2> DEFINE x == [kind |-> kind, actor |-> jobs[c].actor, session |-> jobs[c].session, entries |-> entries]
             new == Says(x)
  <2>1. branch' = [branch EXCEPT !.log = Append(@, x)]
    BY <1>5 DEF Answers
  <2>2. x.kind = kind /\ x.actor = jobs[c].actor /\ x.entries = entries /\ x.session = jobs[c].session
    OBVIOUS
  <2> HIDE DEF x
  <2>3. ASSUME NEW y \in new
        PROVE  /\ Anchored(table', tabs', y) /\ ToldOK(table', tabs', y) /\ y.session = branch.session
               /\ y.root \in Pages => y.actor \in had'[y.root]
    <3>1. PICK e \in entries : y = [actor |-> x.actor, session |-> x.session, by |-> x.kind, ref |-> e.ref, root |-> e.root]
      BY <2>2 DEF Says
    <3>2. y.ref = e.ref /\ y.root = e.root /\ y.actor = jobs[c].actor /\ y.session = branch.session /\ y.by = kind
      BY <3>1, <2>2, <1>5
    <3>3. Anchored(table', tabs', e) /\ (kind = "find" => FoundEntry(e) /\ Kept(table', tabs', e))
          /\ (e.root \in Pages => jobs[c].actor \in had[e.root])
      BY <1>5
    <3>4. TableOK(table') /\ TabsOK(table', tabs')
      BY DEF Moves
    <3>5. ToldOK(table', tabs', y)
      BY <3>2, <3>3, <3>4, AnchoredTold
    <3> QED
      BY <3>2, <3>3, <3>5 DEF Anchored
  <2> HIDE DEF new
  <2>4. BranchOK' /\ branch'.session = branch.session /\ branch'.log = Append(branch.log, x)
    BY <2>1, <1>3 DEF BranchOK
  <2>5. GoesOn
    BY <2>4, TablesGoOn
  <2>6. ToldInv'
    <3>1. branch.log \in Seq(Range(branch.log))
      BY DEF RootsInv, LogInv, LogOK
    <3>2. Told' = Told \cup new
      BY <2>4, <3>1, TellsMore DEF new
    <3> QED
      BY <2>3, <2>5, <3>2, ToldExtends
  <2>7. LogInv'
    <3>1. GoodResult(x)
      BY <1>5, <2>2 DEF GoodResult
    <3> QED
      BY <2>4, <2>5, <3>1, LogExtends
  <2>8. jobs' = [y \in RootCalls |-> jobs'[y]] /\ JobsInv'
    BY <1>1, <1>2, <2>5, JobsAfter
  <2>9. DeskOK(desk') /\ TablesOK' /\ HadOK' /\ OwnersOK'
    BY <1>2, <2>5 DEF GoesOn, Moves, TablesOK, DeskStays
  <2> QED
    BY <2>4, <2>6, <2>7, <2>8, <2>9 DEF RootsInv
<1> QED
  BY <1>4, <1>5

LEMMA FindPagesStep ==
  ASSUME RootsInv, NEW c \in RootCalls, FindPages(c)
  PROVE  RootsInv'
<1> DEFINE j == jobs[c]
           ps == OwnPages(j.actor)
           new == StorePages(table, tabs, ps)
           pages == {[ref |-> new.tabs.root[p], root |-> p, record |-> PageRow(p)] : p \in ps}
<1>1. /\ j.at = "pages" /\ table' = new.table /\ tabs' = new.tabs /\ Answers(c, j.rows \cup pages, "find")
      /\ desk' = desk /\ had' = had
  BY DEF FindPages
<1>2. TableOK(table) /\ TabsOK(table, tabs) /\ OwnersOK
  BY DEF RootsInv, TablesOK
<1>3. JobOK(j, branch.session, table, tabs, desk, had)
  BY <1>1, JobAt
<1>4. ps \in SUBSET Pages /\ \A p \in ps : j.actor \in had[p]
  BY <1>2 DEF OwnPages, OwnersOK
<1> HIDE DEF ps, j
<1>5. /\ TableOK(table') /\ TabsOK(table', tabs') /\ PagesGrow(table, tabs, table', tabs')
      /\ ps \subseteq DOMAIN tabs'.root
  BY <1>1, <1>2, <1>4, StorePagesGrows
<1>6. Moves(table, tabs, table', tabs') /\ tabs'.owner = tabs.owner
  BY <1>2, <1>5, PagesMove DEF PagesGrow
<1>7. ASSUME j.session = branch.session, NEW e \in j.rows \cup pages
      PROVE  /\ Anchored(table', tabs', e) /\ FoundEntry(e) /\ Kept(table', tabs', e)
             /\ e.root \in Pages => j.actor \in had[e.root]
  <2>1. CASE e \in j.rows
    <3>1. FoundEntry(e) /\ e.root \in Windows /\ Kept(table, tabs, e)
      BY <1>1, <1>3, <1>7, <2>1 DEF JobOK
    <3>2. e.ref \in Nat /\ e.root \notin Pages /\ e.record.app = "app"
      BY <3>1, RootsAssumption DEF FoundEntry
    <3>3. Kept(table', tabs', e)
      BY <1>6, <3>1, <3>2, KeptStays
    <3>4. /\ e.ref \in DOMAIN table'.refs
          /\ WindowRecordIdentity(table'.refs[e.ref]) = WindowRecordIdentity(e.record)
      BY <3>1, <3>3 DEF Kept
    <3>5. table'.refs[e.ref].app = "app"
      BY <3>2, <3>4, IdentityTells
    <3> QED
      BY <3>1, <3>2, <3>3, <3>4, <3>5 DEF Anchored
  <2>2. CASE e \in pages
    <3>1. PICK p \in ps : e = [ref |-> new.tabs.root[p], root |-> p, record |-> PageRow(p)]
      BY <2>2
    <3>2. e.ref = tabs'.root[p] /\ e.root = p /\ e.record = PageRow(p)
      BY <1>1, <3>1
    <3>3. p \in Pages /\ p \notin Windows /\ p \in DOMAIN tabs'.root
      BY <1>4, <1>5, RootsAssumption
    <3>4. e.ref \in DOMAIN tabs'.context /\ tabs'.context[e.ref] = p
      BY <1>5, <3>2, <3>3 DEF TabsOK
    <3>5. e.ref \in Nat /\ e.ref < table'.next /\ e.ref \notin DOMAIN table'.refs
      BY <1>5, <3>4 DEF TabsOK
    <3>6. j.actor \in had[p]
      BY <1>4
    <3> QED
      BY <3>2, <3>3, <3>4, <3>5, <3>6 DEF Anchored, FoundEntry, Kept
  <2> QED
    BY <1>7, <2>1, <2>2
<1> HIDE DEF new, pages
<1> QED
  BY <1>1, <1>6, <1>7, AnswersKeep DEF j

LEMMA LedOpen ==
  ASSUME NEW t, LedTo(t) # NoRoot
  PROVE  LedTo(t) \in desk.open
<1> DEFINE known == {w \in Windows : t.native > 0 /\ desk.native[w] = t.native}
           ided == {w \in desk.open : t.id > 0 /\ IdOf[w] = t.id}
           led == IF known # {} THEN known \cap desk.open ELSE ided
<1>1. LedTo(t) = IF led = {} THEN NoRoot ELSE CHOOSE w \in led : TRUE
  BY DEF LedTo
<1>2. led \subseteq desk.open
  OBVIOUS
<1> HIDE DEF led
<1> QED
  BY <1>1, <1>2

LEMMA FailsKeeps ==
  ASSUME RootsInv, NEW c \in RootCalls, Fails(c), DeskStays(desk, desk'), had' = had
  PROVE  RootsInv'
<1>1. jobs' = [jobs EXCEPT ![c] = NoJob] /\ table' = table /\ tabs' = tabs /\ branch' = branch
  BY DEF Fails, Returns
<1>2. TableOK(table) /\ TabsOK(table, tabs) /\ BranchOK
  BY DEF RootsInv, TablesOK
<1>3. Moves(table, tabs, table', tabs')
  BY <1>1, <1>2, MovesNot
<1>4. GoesOn
  BY <1>1, <1>2, <1>3, BranchMoves, TablesGoOn
<1> QED
  BY <1>1, <1>4, QuietStep

LEMMA LooksStep ==
  ASSUME RootsInv, NEW c \in RootCalls, Looks(c)
  PROVE  RootsInv'
<1> DEFINE j == jobs[c]
           w == LedTo(j.target)
           e == [ref |-> j.target.ref, root |-> w, record |-> j.target]
<1>1. j.at = "look" /\ desk' = desk /\ had' = had
  BY DEF Looks
<1>2. JobOK(j, branch.session, table, tabs, desk, had)
  BY <1>1, JobAt
<1>3. DeskOK(desk) /\ TableOK(table) /\ TabsOK(table, tabs)
  BY DEF RootsInv, TablesOK
<1>4. ASSUME NEW x \in j.delta
      PROVE  x.root \notin Pages /\ (j.session = branch.session => Anchored(table, tabs, x))
  <2>1. x.root \in Windows /\ (j.session = branch.session => x.ref \in DOMAIN table.refs /\ table.refs[x.ref].app = "app")
    BY <1>2 DEF JobOK, DeltaOK
  <2> QED
    BY <2>1, RootsAssumption DEF Anchored
<1>5. CASE w = NoRoot /\ Fails(c)
  BY <1>1, <1>5, DeskAsItWas, FailsKeeps
<1>6. CASE w # NoRoot /\ Answers(c, {e} \cup j.delta, "seen") /\ table' = table /\ tabs' = tabs
  <2>1. w \in Windows
    BY <1>3, <1>6, LedOpen DEF DeskOK
  <2>2. e.ref = j.target.ref /\ e.root = w /\ w \notin Pages
    BY <2>1, RootsAssumption
  <2>3. j.session = branch.session => Anchored(table, tabs, e)
    <3> HIDE DEF e, j, w
    <3> QED
      BY <1>1, <1>2, <2>1, <2>2 DEF JobOK, Anchored
  <2>4. Moves(table, tabs, table', tabs')
    BY <1>3, <1>6, MovesNot
  <2>5. "seen" # "find"
    OBVIOUS
  <2> DEFINE es == {e} \cup j.delta
  <2>6. \A x \in es : x.root \notin Pages /\ (j.session = branch.session => Anchored(table', tabs', x))
    <3> HIDE DEF e, j
    <3> QED
      BY <1>4, <1>6, <2>2, <2>3
  <2>7. Answers(c, es, "seen")
    BY <1>6
  <2> HIDE DEF e, w, es
  <2> QED
    BY <1>1, <1>6, <2>4, <2>5, <2>6, <2>7, AnswersKeep
<1>7. CASE Answers(c, j.delta, "acted") /\ table' = table /\ tabs' = tabs
  <2>1. Moves(table, tabs, table', tabs')
    BY <1>3, <1>7, MovesNot
  <2>2. "acted" # "find"
    OBVIOUS
  <2> DEFINE es == j.delta
  <2>3. \A x \in es : x.root \notin Pages /\ (j.session = branch.session => Anchored(table', tabs', x))
    BY <1>4, <1>7
  <2> HIDE DEF es
  <2> QED
    BY <1>1, <1>7, <2>1, <2>2, <2>3, AnswersKeep DEF es
<1> QED
  BY <1>5, <1>6, <1>7 DEF Looks

LEMMA SnapshotStep ==
  ASSUME RootsInv, NEW c \in RootCalls, Snapshot(c)
  PROVE  RootsInv'
<1> DEFINE j == jobs[c]
           p == j.page
           new == StoreBrowserRootRef(table, tabs, p)
           e == [ref |-> new.ref, root |-> p, record |-> PageRow(p)]
<1>1. /\ j.at = "snapshot" /\ table' = new.table /\ tabs' = new.tabs /\ Answers(c, {e}, "page")
      /\ desk' = desk /\ had' = had
  BY DEF Snapshot
<1>2. TableOK(table) /\ TabsOK(table, tabs)
  BY DEF RootsInv, TablesOK
<1>3. p \in Pages /\ j.actor \in had[p]
  BY <1>1, JobAt DEF JobOK
<1> HIDE DEF j, p
<1>4. /\ TableOK(table') /\ TabsOK(table', tabs') /\ PagesGrow(table, tabs, table', tabs')
      /\ p \in DOMAIN tabs'.root /\ new.ref = tabs'.root[p]
  BY <1>1, <1>2, <1>3, StoreOnePage
<1>5. Moves(table, tabs, table', tabs') /\ tabs'.owner = tabs.owner
  BY <1>2, <1>4, PagesMove DEF PagesGrow
<1>6. e.ref = tabs'.root[p] /\ e.root = p /\ p \notin Windows
  BY <1>3, <1>4, RootsAssumption
<1> HIDE DEF e, new
<1>7. Anchored(table', tabs', e) /\ (e.root \in Pages => j.actor \in had[e.root])
  BY <1>3, <1>4, <1>6 DEF Anchored, TabsOK
<1>8. "page" # "find"
  OBVIOUS
<1> QED
  BY <1>1, <1>5, <1>7, <1>8, AnswersKeep DEF j


--------------------------------------------------------------------------------
(* Calls that aim and deliver.                                               *)

LEMMA AimsAt ==
  ASSUME RootsInv, NEW c \in RootCalls, jobs[c].at # "idle", NEW d, NEW w,
         NEW at \in {"look", "deliver"}, Aims(c, d, w, at)
  PROVE  \E j : /\ jobs' = [jobs EXCEPT ![c] = j] /\ JobShape(j) /\ j.at = at
                /\ j.target = Target(d, table', w) /\ j.named = jobs[c].named /\ j.session = jobs[c].session
                /\ j.delta = jobs[c].delta
<1> DEFINE target == Target(d, table', w)
           one == [jobs[c] EXCEPT !.at = at]
           two == [one EXCEPT !.target = target]
           j == [two EXCEPT !.record = NoTarget]
<1>1. jobs' = [jobs EXCEPT ![c].at = at, ![c].target = target, ![c].record = NoTarget]
  BY DEF Aims
<1>2. jobs = [x \in RootCalls |-> jobs[x]] /\ JobShape(jobs[c])
  BY JobAt DEF RootsInv
<1> HIDE DEF target
<1>3. jobs' = [[[jobs EXCEPT ![c].at = at] EXCEPT ![c].target = target] EXCEPT ![c].record = NoTarget]
  BY <1>1
<1>4. [jobs EXCEPT ![c].at = at] = [jobs EXCEPT ![c] = one]
  BY <1>2
<1>5. one.at = at /\ one.named = jobs[c].named /\ one.session = jobs[c].session /\ one.delta = jobs[c].delta /\ JobShape(one)
  BY <1>2 DEF JobShape
<1> HIDE DEF one
<1>6. [[jobs EXCEPT ![c] = one] EXCEPT ![c].target = target] = [jobs EXCEPT ![c] = two]
  BY <1>2
<1>7. two.at = at /\ two.target = target /\ two.named = jobs[c].named /\ two.session = jobs[c].session /\ two.delta = jobs[c].delta /\ JobShape(two)
  BY <1>5 DEF JobShape
<1> HIDE DEF two
<1>8. [[jobs EXCEPT ![c] = two] EXCEPT ![c].record = NoTarget] = [jobs EXCEPT ![c] = j]
  BY <1>2
<1>9. j.at = at /\ j.target = target /\ j.named = jobs[c].named /\ j.session = jobs[c].session /\ j.delta = jobs[c].delta /\ JobShape(j)
  BY <1>7 DEF JobShape
<1> HIDE DEF j
<1>10. jobs' = [jobs EXCEPT ![c] = j]
  BY <1>3, <1>4, <1>6, <1>8
<1> QED
  BY <1>9, <1>10 DEF target

LEMMA AimsKeep ==
  ASSUME RootsInv, NEW c \in RootCalls, jobs[c].at # "idle", NEW d \in Listings, NEW w \in d.open,
         NEW at \in {"look", "deliver"}, Aims(c, d, w, at),
         tabs' = tabs, branch' = branch, had' = had,
         at = "deliver" => jobs[c].named = {}, at = "look" => \A v \in jobs[c].named : v = w
  PROVE  RootsInv'
<1>1. DeskOK(desk) /\ TableOK(table) /\ TabsOK(table, tabs) /\ BranchOK
  BY DEF RootsInv, TablesOK
<1>2. desk' = d /\ table' = StoreWindowRef(table, Row(d, w))
  BY DEF Aims
<1>3. DeskOK(d) /\ DeskStays(desk, d) /\ w \in Windows /\ d.native[w] > 0
  BY <1>1, ListingNames
<1>4. /\ Moves(table, tabs, table', tabs)
      /\ RefIn(table', Row(d, w)) \in DOMAIN table'.refs /\ table'.refs[RefIn(table', Row(d, w))].app = "app"
  BY <1>1, <1>2, <1>3, StoreRowOne
<1> DEFINE target == Target(d, table', w)
<1>5. target.ref = RefIn(table', Row(d, w)) /\ target.native = d.native[w]
  BY DEF Target
<1> HIDE DEF target
<1>6. PICK j : /\ jobs' = [jobs EXCEPT ![c] = j] /\ JobShape(j) /\ j.at = at
               /\ j.target = target /\ j.named = jobs[c].named /\ j.session = jobs[c].session
               /\ j.delta = jobs[c].delta
  BY AimsAt DEF target
<1>7. j.session <= branch.session
  BY <1>6, JobAt DEF JobOK
<1>8. JobOK(j, branch.session, table', tabs', desk', had')
  <2>1. at = "deliver" => j.named = {}
    BY <1>6
  <2>2. at = "look" => \A v \in j.named : v \in d.open /\ d.native[v] > 0 /\ d.native[v] = j.target.native
    BY <1>3, <1>5, <1>6
  <2>3. j.target.ref \in DOMAIN table'.refs /\ table'.refs[j.target.ref].app = "app"
    BY <1>4, <1>5, <1>6
  <2>4. /\ j.at # "pages" /\ j.at # "snapshot" /\ j.at # "resolve" /\ j.at # "aim"
        /\ j.at = at
    BY <1>6
  <2>5. DeltaOK(j, branch.session, table')
    <3>1. DeltaOK(jobs[c], branch.session, table)
      BY JobAt DEF JobOK
    <3>2. DeltaOK(j, branch.session, table)
      BY <1>6, <3>1 DEF DeltaOK
    <3> QED
      BY <1>4, <3>2, DeltaStays DEF Moves
  <2> QED
    BY <1>2, <1>6, <1>7, <2>1, <2>2, <2>3, <2>4, <2>5 DEF JobOK
<1>9. GoesOn /\ branch'.log = branch.log
  BY <1>1, <1>4, BranchMoves, TablesGoOn
<1> QED
  BY <1>2, <1>3, <1>6, <1>8, <1>9, QuietStep

LEMMA MatchesOpen ==
  ASSUME NEW d
  PROVE  /\ \A r : RefMatches(r, d) \subseteq d.open
         /\ \A t : WithModal(TargetMatches(t, d), d) \subseteq d.open
<1>1. \A r : RefMatches(r, d) \subseteq d.open
  BY DEF RefMatches
<1>2. ASSUME NEW ws PROVE Ranked(ws) \subseteq ws \cup {NoRoot}
  BY DEF Ranked
<1>3. ASSUME NEW t PROVE TargetMatches(t, d) \subseteq d.open \cup {NoRoot}
  <2> DEFINE titled == {w \in d.open : TitleOf[w] = t.title}
  <2>1. Ranked(titled) \subseteq d.open \cup {NoRoot} /\ Ranked(d.open) \subseteq d.open \cup {NoRoot}
    BY <1>2
  <2> QED
    BY <2>1 DEF TargetMatches
<1>4. ASSUME NEW ws, ws \subseteq d.open \cup {NoRoot} PROVE WithModal(ws, d) \subseteq d.open
  BY <1>4 DEF WithModal, ForegroundModals
<1> QED
  BY <1>1, <1>3, <1>4

LEMMA ResolveStep ==
  ASSUME RootsInv, NEW c \in RootCalls, Resolve(c)
  PROVE  RootsInv'
<1> DEFINE r == jobs[c].record
<1>1. /\ jobs[c].at = "resolve"
      /\ \E d \in Listings :
           \/ \E w \in RefMatches(r, d) : Aims(c, d, w, "look") /\ UNCHANGED <<tabs, targets, branch, had>>
           \/ RefMatches(r, d) = {} /\ desk' = d /\ Fails(c) /\ UNCHANGED had
  BY DEF Resolve
<1>2. PICK d \in Listings :
           \/ \E w \in RefMatches(r, d) : Aims(c, d, w, "look") /\ UNCHANGED <<tabs, targets, branch, had>>
           \/ RefMatches(r, d) = {} /\ desk' = d /\ Fails(c) /\ UNCHANGED had
  BY <1>1
<1>3. DeskOK(desk)
  BY DEF RootsInv
<1>4. DeskOK(d) /\ DeskStays(desk, d) /\ d.open = desk.open /\ \A w \in d.open : w \in Windows
  BY <1>3, ListingNames
<1>5. \A v \in jobs[c].named : v \in d.open /\ IdOf[v] > 0 /\ r.id = IdOf[v] /\ r.app = "app"
  BY <1>1, <1>4, JobAt DEF JobOK
<1>6. CASE \E w \in RefMatches(r, d) : Aims(c, d, w, "look") /\ UNCHANGED <<tabs, targets, branch, had>>
  <2>1. PICK w \in RefMatches(r, d) : Aims(c, d, w, "look") /\ UNCHANGED <<tabs, targets, branch, had>>
    BY <1>6
  <2>2. w \in d.open
    BY <2>1, MatchesOpen
  <2>3. ASSUME NEW v \in jobs[c].named PROVE v = w
    <3>1. v \in d.open /\ IdOf[v] > 0 /\ r.id = IdOf[v] /\ r.app = "app"
      BY <1>5
    <3>2. v \in {x \in d.open : r.id > 0 /\ IdOf[x] = r.id}
      BY <3>1
    <3>3. IdOf[w] = r.id
      BY <2>1, <3>1, <3>2 DEF RefMatches
    <3> QED
      BY <1>4, <2>2, <3>1, <3>3, RootsAssumption
  <2> HIDE DEF r
  <2> QED
    BY <1>1, <2>1, <2>2, <2>3, AimsKeep
<1>7. CASE desk' = d /\ Fails(c) /\ UNCHANGED had
  BY <1>4, <1>7, FailsKeeps
<1> QED
  BY <1>2, <1>6, <1>7

LEMMA AimStep ==
  ASSUME RootsInv, NEW c \in RootCalls, Aim(c)
  PROVE  RootsInv'
<1> DEFINE ws(d) == TargetMatches(jobs[c].base, d)
<1>1. jobs[c].at = "aim"
  BY DEF Aim
<1>2. PICK d \in Listings :
           \/ \E w \in WithModal(ws(d), d) :
                Aims(c, d, w, "deliver") /\ UNCHANGED <<tabs, targets, branch, had>>
           \/ desk' = d /\ Fails(c) /\ UNCHANGED had
  BY DEF Aim
<1>3. DeskOK(desk)
  BY DEF RootsInv
<1>4. DeskStays(desk, d)
  BY <1>3, ListingNames
<1>5. jobs[c].named = {}
  BY <1>1, JobAt DEF JobOK
<1>6. CASE \E w \in WithModal(ws(d), d) : Aims(c, d, w, "deliver") /\ UNCHANGED <<tabs, targets, branch, had>>
  <2>1. PICK w \in WithModal(ws(d), d) : Aims(c, d, w, "deliver") /\ UNCHANGED <<tabs, targets, branch, had>>
    BY <1>6
  <2>2. w \in d.open
    BY <2>1, MatchesOpen
  <2> QED
    BY <1>1, <1>5, <2>1, <2>2, AimsKeep
<1>7. CASE desk' = d /\ Fails(c) /\ UNCHANGED had
  BY <1>4, <1>7, FailsKeeps
<1> QED
  BY <1>2, <1>6, <1>7

\* A call that has delivered looks again, and holds what was opened.
LEMMA LooksAgain ==
  ASSUME RootsInv, NEW c \in RootCalls, jobs[c].at = "deliver", GoesOn, DeskStays(desk, desk'), NEW delta,
         \A e \in delta : e.root \in Windows /\ e.ref \in DOMAIN table'.refs /\ table'.refs[e.ref].app = "app",
         NEW j, j = [[jobs[c] EXCEPT !.at = "look"] EXCEPT !.delta = delta]
  PROVE  JobOK(j, branch.session, table', tabs', desk', had')
<1>1. JobOK(jobs[c], branch.session, table, tabs, desk, had) /\ DeskOK(desk)
  BY JobAt DEF RootsInv
<1>2. JobOK(jobs[c], branch.session, table', tabs', desk', had') /\ JobShape(jobs[c])
  BY <1>1, JobAt, JobStays DEF GoesOn
<1> DEFINE one == [jobs[c] EXCEPT !.at = "look"]
<1>3. /\ JobShape(one) /\ one.at = "look" /\ one.target = jobs[c].target /\ one.named = jobs[c].named
      /\ one.session = jobs[c].session
  BY <1>2 DEF JobShape
<1> HIDE DEF one
<1>4. j = [one EXCEPT !.delta = delta]
  BY DEF one
<1>5. /\ JobShape(j) /\ j.at = "look" /\ j.target = jobs[c].target /\ j.named = jobs[c].named
      /\ j.session = jobs[c].session /\ j.delta = delta
  BY <1>3, <1>4 DEF JobShape
<1>6. jobs[c].named = {}
  BY <1>2 DEF JobOK
<1> QED
  BY <1>2, <1>5, <1>6 DEF JobOK, DeltaOK

LEMMA OpensWindows ==
  ASSUME DeskOK(desk), NEW vs, vs \subseteq Windows, NEW d, d = [desk EXCEPT !.open = @ \cup vs]
  PROVE  DeskOK(d) /\ DeskStays(desk, d)
<1>1. DOMAIN d = {"open", "gone", "native", "minted"} /\ d.open = desk.open \cup vs /\ d.native = desk.native
      /\ d.minted = desk.minted
  BY DEF DeskOK
<1>2. DeskOK(d)
  BY <1>1 DEF DeskOK
<1> QED
  BY <1>1, <1>2 DEF DeskStays

LEMMA DeltaStep ==
  ASSUME RootsInv, NEW c \in RootCalls, jobs[c].at = "deliver", tabs' = tabs, had' = had, Event,
         NEW v \in Windows, NEW opened, DeskOK(opened), DeskStays(desk, opened),
         NEW o \in Orders(Unnamed(opened, opened.open)), NEW d, d = NamedBy(opened, opened.open, o), desk' = d,
         d.native[v] > 0,
         NEW new \in StoreRootDelta(table, d, v), table' = new.table,
         NEW delta, delta = {[ref |-> new.ref, root |-> v, record |-> NoTarget]},
         jobs' = [jobs EXCEPT ![c].at = "look", ![c].delta = delta]
  PROVE  RootsInv'
<1>1. DeskOK(desk) /\ TableOK(table) /\ TabsOK(table, tabs) /\ BranchOK
  BY DEF RootsInv, TablesOK
<1>2. /\ DeskOK(d) /\ d.open = opened.open /\ (\A w \in d.open : d.native[w] > 0)
      /\ \A w \in Windows : opened.native[w] > 0 => d.native[w] = opened.native[w]
  BY NamedByNames
<1>3. DeskStays(desk, d) /\ DeskStays(desk, desk')
  BY <1>2 DEF DeskStays
<1>4. Moves(table, tabs, table', tabs) /\ new.ref \in DOMAIN table'.refs /\ table'.refs[new.ref].app = "app"
  BY <1>1, <1>2, <1>3, DeltaLeads
<1>5. branch' = [branch EXCEPT !.events = @ + 1]
  BY DEF Event
<1>6. GoesOn /\ branch'.log = branch.log
  BY <1>1, <1>4, <1>5, BranchMoves, TablesGoOn
<1> DEFINE one == [jobs[c] EXCEPT !.at = "look"]
           j == [one EXCEPT !.delta = delta]
<1>7. jobs' = [jobs EXCEPT ![c] = j]
  <2>1. jobs = [x \in RootCalls |-> jobs[x]]
    BY DEF RootsInv
  <2>2. jobs' = [[jobs EXCEPT ![c].at = "look"] EXCEPT ![c].delta = delta]
    OBVIOUS
  <2>3. [jobs EXCEPT ![c].at = "look"] = [jobs EXCEPT ![c] = one]
    BY <2>1
  <2> HIDE DEF one
  <2>4. [[jobs EXCEPT ![c] = one] EXCEPT ![c].delta = delta] = [jobs EXCEPT ![c] = j]
    BY <2>1
  <2> QED
    BY <2>2, <2>3, <2>4
<1>8. \A e \in delta : e.root \in Windows /\ e.ref \in DOMAIN table'.refs /\ table'.refs[e.ref].app = "app"
  BY <1>4
<1>9. JobOK(j, branch.session, table', tabs', desk', had')
  BY <1>3, <1>6, <1>8, LooksAgain
<1> HIDE DEF j, one
<1> QED
  BY <1>3, <1>6, <1>7, <1>9, QuietStep

LEMMA DeliversStep ==
  ASSUME RootsInv, NEW c \in RootCalls, Delivers(c)
  PROVE  RootsInv'
<1>1. jobs[c].at = "deliver" /\ had' = had
  BY DEF Delivers
<1>2. CASE Fails(c) /\ UNCHANGED desk
  BY <1>1, <1>2, DeskAsItWas, FailsKeeps
<1>3. CASE Goes(c, "look") /\ UNCHANGED <<desk, table, tabs, targets, branch>>
  <2>1. DeskOK(desk) /\ TableOK(table) /\ TabsOK(table, tabs) /\ BranchOK
    BY DEF RootsInv, TablesOK
  <2>2. desk' = desk /\ table' = table /\ tabs' = tabs /\ branch' = branch
    BY <1>3
  <2>3. Moves(table, tabs, table', tabs') /\ DeskStays(desk, desk')
    BY <2>1, <2>2, MovesNot, DeskAsItWas
  <2>4. GoesOn /\ branch'.log = branch.log
    BY <1>1, <2>1, <2>2, <2>3, BranchMoves, TablesGoOn
  <2>5. JobOK(jobs[c], branch.session, table, tabs, desk, had) /\ JobShape(jobs[c])
    BY <1>1, JobAt
  <2> DEFINE one == [jobs[c] EXCEPT !.at = "look"]
             delta == jobs[c].delta
             j == [one EXCEPT !.delta = delta]
  <2>6. one = j
    BY <2>5 DEF JobShape
  <2>7. jobs' = [jobs EXCEPT ![c] = one]
    BY <1>3 DEF RootsInv, Goes
  <2> DEFINE mine == jobs[c].session = branch.session
  <2>8. CASE mine
    <3>1. \A e \in delta : e.root \in Windows /\ e.ref \in DOMAIN table'.refs /\ table'.refs[e.ref].app = "app"
      BY <2>2, <2>5, <2>8 DEF JobOK, DeltaOK
    <3> HIDE DEF delta
    <3>2. JobOK(j, branch.session, table', tabs', desk', had')
      BY <1>1, <2>3, <2>4, <3>1, LooksAgain
    <3> HIDE DEF j, one
    <3> QED
      BY <2>3, <2>4, <2>6, <2>7, <3>2, QuietStep
  <2>9. CASE ~mine
    <3>1. /\ JobShape(one) /\ one.at = "look" /\ one.named = jobs[c].named
          /\ one.session = jobs[c].session /\ one.delta = jobs[c].delta
      BY <2>5 DEF JobShape
    <3> HIDE DEF one
    <3>2. jobs[c].named = {}
      BY <1>1, <2>5 DEF JobOK
    <3>3. JobOK(one, branch.session, table', tabs', desk', had')
      BY <2>5, <2>9, <3>1, <3>2 DEF JobOK, DeltaOK
    <3> QED
      BY <2>3, <2>4, <2>7, <3>3, QuietStep
  <2> QED
    BY <2>8, <2>9
<1>4. CASE /\ Event
           /\ \E v \in Windows :
                LET opened == [desk EXCEPT !.open = @ \cup ({v} \ desk.gone)] IN
                \E o \in Orders(Unnamed(opened, opened.open)) :
                  /\ desk' = NamedBy(opened, opened.open, o) /\ desk'.native[v] > 0
                  /\ \E new \in StoreRootDelta(table, desk', v) :
                       /\ table' = new.table
                       /\ jobs' = [jobs EXCEPT ![c].at = "look",
                                              ![c].delta = {[ref |-> new.ref, root |-> v, record |-> NoTarget]}]
           /\ UNCHANGED <<tabs, targets>>
  <2> DEFINE opened(v) == [desk EXCEPT !.open = @ \cup ({v} \ desk.gone)]
  <2>1. PICK v \in Windows :
               \E o \in Orders(Unnamed(opened(v), opened(v).open)) :
                  /\ desk' = NamedBy(opened(v), opened(v).open, o) /\ desk'.native[v] > 0
                  /\ \E new \in StoreRootDelta(table, desk', v) :
                       /\ table' = new.table
                       /\ jobs' = [jobs EXCEPT ![c].at = "look",
                                              ![c].delta = {[ref |-> new.ref, root |-> v, record |-> NoTarget]}]
    BY <1>4
  <2> DEFINE open == opened(v)
  <2>2. PICK o \in Orders(Unnamed(open, open.open)) :
                  /\ desk' = NamedBy(open, open.open, o) /\ desk'.native[v] > 0
                  /\ \E new \in StoreRootDelta(table, desk', v) :
                       /\ table' = new.table
                       /\ jobs' = [jobs EXCEPT ![c].at = "look",
                                              ![c].delta = {[ref |-> new.ref, root |-> v, record |-> NoTarget]}]
    BY <2>1
  <2>3. DeskOK(open) /\ DeskStays(desk, open)
    <3>1. DeskOK(desk) /\ {v} \ desk.gone \subseteq Windows
      BY DEF RootsInv
    <3> DEFINE vs == {v} \ desk.gone
    <3>2. open = [desk EXCEPT !.open = @ \cup vs] /\ vs \subseteq Windows
      BY <3>1
    <3> HIDE DEF open, vs
    <3> QED
      BY <3>1, <3>2, OpensWindows
  <2> HIDE DEF open
  <2>4. PICK new \in StoreRootDelta(table, desk', v) :
                       /\ table' = new.table
                       /\ jobs' = [jobs EXCEPT ![c].at = "look",
                                              ![c].delta = {[ref |-> new.ref, root |-> v, record |-> NoTarget]}]
    BY <2>2
  <2> DEFINE delta == {[ref |-> new.ref, root |-> v, record |-> NoTarget]}
  <2>5. jobs' = [jobs EXCEPT ![c].at = "look", ![c].delta = delta]
    BY <2>4
  <2>6. Event /\ tabs' = tabs /\ desk' = NamedBy(open, open.open, o)
    BY <1>4, <2>2
  <2>7. delta = {[ref |-> new.ref, root |-> v, record |-> NoTarget]}
    OBVIOUS
  <2> DEFINE d == NamedBy(open, open.open, o)
  <2>8. desk' = d /\ d = NamedBy(open, open.open, o) /\ d.native[v] > 0
    BY <2>2, <2>6
  <2> HIDE DEF delta, d
  <2>9. new \in StoreRootDelta(table, d, v) /\ table' = new.table
    BY <2>4, <2>8
  <2> QED
    BY <1>1, <2>1, <2>2, <2>3, <2>5, <2>6, <2>7, <2>8, <2>9, DeltaStep
<1> QED
  BY <1>2, <1>3, <1>4 DEF Delivers

--------------------------------------------------------------------------------
(* Windows, the helper and owners.                                           *)

LEMMA WindowOpensStep ==
  ASSUME RootsInv, WindowOpens
  PROVE  RootsInv'
<1>1. DeskOK(desk) /\ TableOK(table) /\ TabsOK(table, tabs) /\ BranchOK
  BY DEF RootsInv, TablesOK
<1>2. /\ branch' = [branch EXCEPT !.events = @ + 1]
      /\ table' = table /\ tabs' = tabs /\ jobs' = jobs /\ had' = had
  BY DEF WindowOpens, Event
<1>3. PICK w \in Windows \ (desk.open \cup desk.gone) : desk' = [desk EXCEPT !.open = @ \cup {w}]
  BY DEF WindowOpens
<1>4. DeskStays(desk, desk')
  <2> DEFINE ws == {w}
  <2>1. desk' = [desk EXCEPT !.open = @ \cup ws] /\ ws \subseteq Windows
    BY <1>3
  <2> HIDE DEF ws
  <2> QED
    BY <1>1, <2>1, OpensWindows
<1>5. Moves(table, tabs, table', tabs')
  BY <1>1, <1>2, MovesNot
<1>6. GoesOn /\ branch'.log = branch.log
  BY <1>1, <1>2, <1>5, BranchMoves, TablesGoOn
<1> QED
  BY <1>2, <1>4, <1>6, QuietEvent

\* What calls may count on: everything else they hold stays.
SameBut(k, j) ==
  /\ JobShape(k) /\ k.at = j.at /\ k.actor = j.actor /\ k.session = j.session /\ k.record = j.record
  /\ k.target = j.target /\ k.rows = j.rows /\ k.delta = j.delta /\ k.page = j.page

LEMMA UnnamesIs ==
  ASSUME RootsInv, NEW gone, NEW ats, "idle" \notin ats, Unnames(gone, ats)
  PROVE  /\ jobs' = [c \in RootCalls |-> jobs'[c]]
         /\ \A c \in RootCalls : jobs[c] = NoJob => jobs'[c] = NoJob
         /\ \A c \in RootCalls : JobShape(jobs[c]) =>
              /\ SameBut(jobs'[c], jobs[c])
              /\ jobs'[c].named = IF jobs[c].at \in ats THEN jobs[c].named \ gone ELSE jobs[c].named
<1>1. /\ jobs' = [c \in RootCalls |-> jobs'[c]]
      /\ \A c \in RootCalls :
           jobs'[c] = IF jobs[c].at \in ats THEN [jobs[c] EXCEPT !.named = jobs[c].named \ gone] ELSE jobs[c]
  BY DEF Unnames
<1>2. NoJob.at = "idle"
  BY DEF NoJob
<1>3. \A c \in RootCalls : jobs[c] = NoJob => jobs'[c] = NoJob
  BY <1>1, <1>2
<1>4. ASSUME NEW c \in RootCalls, JobShape(jobs[c])
      PROVE  /\ SameBut(jobs'[c], jobs[c])
             /\ jobs'[c].named = IF jobs[c].at \in ats THEN jobs[c].named \ gone ELSE jobs[c].named
  <2> DEFINE j == jobs[c]
             left == j.named \ gone
  <2>1. JobShape(j) /\ jobs'[c] = IF j.at \in ats THEN [j EXCEPT !.named = left] ELSE j
    BY <1>1, <1>4
  <2> HIDE DEF j, left
  <2>2. SameBut(jobs'[c], j) /\ jobs'[c].named = IF j.at \in ats THEN left ELSE j.named
    BY <2>1 DEF SameBut, JobShape
  <2> QED
    BY <2>2 DEF j, left
<1> QED
  BY <1>1, <1>3, <1>4

\* A job may count on fewer windows, on another desk.
LEMMA JobCountsOnLess ==
  ASSUME NEW s, NEW t, NEW b, NEW d, NEW e, NEW h, NEW j, JobOK(j, s, t, b, d, h), NEW k, SameBut(k, j),
         k.named \subseteq j.named,
         j.at = "resolve" => \A v \in k.named : v \in e.open,
         j.at = "look" => \A v \in k.named : v \in e.open /\ e.native[v] = d.native[v]
  PROVE  JobOK(k, s, t, b, e, h)
<1>1. j.at \in {"aim", "deliver"} => k.named = {}
  BY DEF JobOK
<1>2. j.at = "look" => \A v \in k.named : v \in e.open /\ e.native[v] > 0 /\ e.native[v] = j.target.native
  BY DEF JobOK
<1>3. j.at = "resolve" => \A v \in k.named : v \in e.open /\ IdOf[v] > 0 /\ j.record.id = IdOf[v] /\ j.record.app = "app"
  BY DEF JobOK
<1> QED
  BY <1>1, <1>2, <1>3 DEF JobOK, DeltaOK, SameBut

\* The tables, the branch and what was told stay; the desk is another.
LEMMA DeskChanges ==
  ASSUME RootsInv, Event, table' = table, tabs' = tabs, had' = had, DeskOK(desk'),
         jobs' = [c \in RootCalls |-> jobs'[c]],
         \A c \in RootCalls : jobs'[c] = NoJob \/ JobOK(jobs'[c], branch.session, table, tabs, desk', had)
  PROVE  RootsInv'
<1>1. TableOK(table) /\ TabsOK(table, tabs) /\ BranchOK
  BY DEF RootsInv, TablesOK
<1>2. branch' = [branch EXCEPT !.events = @ + 1]
  BY DEF Event
<1>3. Moves(table, tabs, table', tabs')
  BY <1>1, MovesNot
<1>4. GoesOn /\ branch'.log = branch.log
  BY <1>1, <1>2, <1>3, BranchMoves, TablesGoOn
<1>5. LogInv' /\ ToldInv'
  BY <1>4, LogStays, ToldStaysAsItWas
<1>6. JobsInv'
  BY <1>4 DEF JobsInv, GoesOn
<1>7. TablesOK' /\ HadOK' /\ OwnersOK' /\ BranchOK'
  BY <1>4 DEF GoesOn, Moves, TablesOK
<1> QED
  BY <1>5, <1>6, <1>7 DEF RootsInv

LEMMA WindowClosesStep ==
  ASSUME RootsInv, WindowCloses
  PROVE  RootsInv'
<1>1. Event /\ table' = table /\ tabs' = tabs /\ had' = had
  BY DEF WindowCloses
<1>2. PICK w \in desk.open : desk' = [desk EXCEPT !.open = @ \ {w}, !.gone = @ \cup {w}] /\ Unnames({w}, {"resolve", "look"})
  BY DEF WindowCloses
<1>3. DeskOK(desk)
  BY DEF RootsInv
<1>4. DeskOK(desk') /\ desk'.open = desk.open \ {w} /\ desk'.native = desk.native
  <2> DEFINE one == [desk EXCEPT !.open = @ \ {w}]
             gone == desk.gone \cup {w}
  <2>1. /\ DOMAIN one = {"open", "gone", "native", "minted"} /\ one.open = desk.open \ {w}
        /\ one.native = desk.native /\ one.minted = desk.minted /\ one.gone = desk.gone
    BY <1>3 DEF DeskOK
  <2>2. desk' = [one EXCEPT !.gone = gone]
    BY <1>2, <1>3 DEF DeskOK
  <2> HIDE DEF one, gone
  <2>3. /\ DOMAIN desk' = {"open", "gone", "native", "minted"} /\ desk'.open = desk.open \ {w}
        /\ desk'.native = desk.native /\ desk'.minted = desk.minted
    BY <2>1, <2>2
  <2>4. DeskOK(desk')
    BY <1>3, <2>3 DEF DeskOK
  <2> QED
    BY <2>3, <2>4
<1>5. "idle" \notin {"resolve", "look"}
  OBVIOUS
<1>6. jobs' = [c \in RootCalls |-> jobs'[c]]
  BY <1>2, <1>5, UnnamesIs
<1>7. ASSUME NEW c \in RootCalls PROVE jobs'[c] = NoJob \/ JobOK(jobs'[c], branch.session, table, tabs, desk', had)
  <2>1. CASE jobs[c] = NoJob
    BY <1>2, <1>5, <2>1, UnnamesIs
  <2>2. CASE JobOK(jobs[c], branch.session, table, tabs, desk, had)
    <3>1. JobShape(jobs[c])
      BY <2>2 DEF JobOK
    <3>2. /\ SameBut(jobs'[c], jobs[c])
          /\ jobs'[c].named = IF jobs[c].at \in {"resolve", "look"} THEN jobs[c].named \ {w} ELSE jobs[c].named
      BY <1>2, <1>5, <3>1, UnnamesIs
    <3>3. jobs'[c].named \subseteq jobs[c].named
      BY <3>2
    <3>4. ASSUME jobs[c].at \in {"resolve", "look"}, NEW v \in jobs'[c].named
          PROVE  v \in desk'.open /\ desk'.native[v] = desk.native[v]
      BY <1>4, <2>2, <3>2, <3>4 DEF JobOK
    <3> QED
      BY <2>2, <3>2, <3>3, <3>4, JobCountsOnLess
  <2> QED
    BY <2>1, <2>2 DEF RootsInv, JobsInv
<1> QED
  BY <1>1, <1>4, <1>6, <1>7, DeskChanges

LEMMA HelperRestartsStep ==
  ASSUME RootsInv, HelperRestarts
  PROVE  RootsInv'
<1>1. Event /\ table' = table /\ tabs' = tabs /\ had' = had /\ Unnames(Windows, {"look"})
  BY DEF HelperRestarts
<1>2. DeskOK(desk)
  BY DEF RootsInv
<1> DEFINE none == [w \in Windows |-> 0]
<1>3. DeskOK(desk') /\ desk'.open = desk.open
  <2> DEFINE one == [desk EXCEPT !.native = none]
  <2>0. none \in [Windows -> Nat] /\ \A w \in Windows : none[w] = 0
    OBVIOUS
  <2>1. desk' = [desk EXCEPT !.native = none, !.minted = 0]
    BY DEF HelperRestarts
  <2> HIDE DEF none
  <2>2. /\ DOMAIN one = {"open", "gone", "native", "minted"} /\ one.open = desk.open /\ one.native = none
    BY <1>2 DEF DeskOK
  <2>3. desk' = [one EXCEPT !.minted = 0]
    BY <1>2, <2>1 DEF DeskOK
  <2> HIDE DEF one
  <2>4. /\ DOMAIN desk' = {"open", "gone", "native", "minted"} /\ desk'.open = desk.open
        /\ desk'.native = none /\ desk'.minted = 0
    BY <2>2, <2>3
  <2>5. DeskOK(desk')
    BY <1>2, <2>0, <2>4 DEF DeskOK
  <2> QED
    BY <2>4, <2>5
<1>4. "idle" \notin {"look"}
  OBVIOUS
<1>5. jobs' = [c \in RootCalls |-> jobs'[c]]
  BY <1>1, <1>4, UnnamesIs
<1>6. ASSUME NEW c \in RootCalls PROVE jobs'[c] = NoJob \/ JobOK(jobs'[c], branch.session, table, tabs, desk', had)
  <2>1. CASE jobs[c] = NoJob
    BY <1>1, <1>4, <2>1, UnnamesIs
  <2>2. CASE JobOK(jobs[c], branch.session, table, tabs, desk, had)
    <3>1. JobShape(jobs[c])
      BY <2>2 DEF JobOK
    <3>2. /\ SameBut(jobs'[c], jobs[c])
          /\ jobs'[c].named = IF jobs[c].at \in {"look"} THEN jobs[c].named \ Windows ELSE jobs[c].named
      BY <1>1, <1>4, <3>1, UnnamesIs
    <3>3. jobs'[c].named \subseteq jobs[c].named
      BY <3>2
    <3>4. jobs[c].at = "resolve" => \A v \in jobs'[c].named : v \in desk'.open
      BY <1>3, <2>2, <3>3 DEF JobOK
    <3>5. jobs[c].at = "look" => jobs'[c].named = {}
      BY <1>2, <2>2, <3>2 DEF JobOK, DeskOK
    <3> QED
      BY <2>2, <3>2, <3>3, <3>4, <3>5, JobCountsOnLess
  <2> QED
    BY <2>1, <2>2 DEF RootsInv, JobsInv
<1> QED
  BY <1>1, <1>3, <1>5, <1>6, DeskChanges

LEMMA HandoffStep ==
  ASSUME RootsInv, HandoffManagedRoot
  PROVE  RootsInv'
<1>1. PICK p \in DOMAIN tabs.owner, b \in RootActors :
        tabs' = [tabs EXCEPT !.owner[p] = b] /\ had' = [had EXCEPT ![p] = @ \cup {b}]
  BY DEF HandoffManagedRoot
<1>2. /\ branch' = [branch EXCEPT !.events = @ + 1]
      /\ desk' = desk /\ table' = table /\ jobs' = jobs
  BY DEF HandoffManagedRoot, Event
<1>3. TableOK(table) /\ TabsOK(table, tabs) /\ BranchOK /\ OwnersOK /\ HadOK
  BY DEF RootsInv, TablesOK
<1>4. p \in Pages
  BY <1>3 DEF OwnersOK
<1> DEFINE owner == [tabs.owner EXCEPT ![p] = b]
<1>5. DOMAIN owner = DOMAIN tabs.owner /\ \A q \in DOMAIN owner : owner[q] = IF q = p THEN b ELSE tabs.owner[q]
  OBVIOUS
<1>6. tabs' = [tabs EXCEPT !.owner = owner]
  BY <1>1
<1> HIDE DEF owner
<1>7. tabs = [root |-> tabs.root, context |-> tabs.context, owner |-> tabs.owner]
  BY <1>3 DEF TabsOK
<1>8. tabs' = [root |-> tabs.root, context |-> tabs.context, owner |-> owner]
  BY <1>6, <1>7
<1>9. tabs'.root = tabs.root /\ tabs'.context = tabs.context /\ tabs'.owner = owner
  BY <1>8
<1>10. TabsOK(table, tabs')
  BY <1>3, <1>8, <1>9 DEF TabsOK
<1>11. Moves(table, tabs, table', tabs')
  BY <1>2, <1>3, <1>9, <1>10, GrowsItself DEF Moves
<1>12. HadOK' /\ \A q \in Pages : had'[q] = IF q = p THEN had[q] \cup {b} ELSE had[q]
  BY <1>1, <1>3, <1>4 DEF HadOK
<1>13. OwnersOK'
  BY <1>3, <1>5, <1>9, <1>12 DEF OwnersOK
<1>14. \A q \in Pages : had[q] \subseteq had'[q]
  BY <1>12
<1>15. GoesOn /\ branch'.log = branch.log
  BY <1>2, <1>3, <1>11, <1>12, <1>13, <1>14, BranchMoves DEF GoesOn
<1>16. DeskStays(desk, desk')
  BY <1>2, DeskAsItWas
<1> QED
  BY <1>2, <1>15, <1>16, QuietEvent

LEMMA ReleaseStep ==
  ASSUME RootsInv, ReleaseManagedRootsForActor
  PROVE  RootsInv'
<1> DEFINE owned(a) == {p \in DOMAIN tabs.owner : tabs.owner[p] = a}
           kept(f, a) == [p \in DOMAIN f \ owned(a) |-> f[p]]
           context(a) == [r \in {s \in DOMAIN tabs.context : tabs.context[s] \notin owned(a)} |-> tabs.context[r]]
<1>1. PICK a \in RootActors : tabs' = [owner |-> kept(tabs.owner, a), root |-> kept(tabs.root, a), context |-> context(a)]
  BY DEF ReleaseManagedRootsForActor
<1>2. /\ branch' = [branch EXCEPT !.events = @ + 1]
      /\ desk' = desk /\ table' = table /\ jobs' = jobs /\ had' = had
  BY DEF ReleaseManagedRootsForActor, Event
<1>3. TableOK(table) /\ TabsOK(table, tabs) /\ BranchOK /\ OwnersOK /\ HadOK
  BY DEF RootsInv, TablesOK
<1> DEFINE gone == owned(a)
           owner == kept(tabs.owner, a)
           root == kept(tabs.root, a)
           contexts == context(a)
<1>4. /\ DOMAIN owner = DOMAIN tabs.owner \ gone /\ (\A p \in DOMAIN owner : owner[p] = tabs.owner[p])
      /\ DOMAIN root = DOMAIN tabs.root \ gone /\ (\A p \in DOMAIN root : root[p] = tabs.root[p])
      /\ DOMAIN contexts = {s \in DOMAIN tabs.context : tabs.context[s] \notin gone}
      /\ \A r \in DOMAIN contexts : contexts[r] = tabs.context[r]
  OBVIOUS
<1>5. tabs' = [owner |-> owner, root |-> root, context |-> contexts]
  BY <1>1
<1> HIDE DEF gone, owner, root, contexts
<1>6. tabs'.root = root /\ tabs'.context = contexts /\ tabs'.owner = owner
  BY <1>5
<1>7. tabs' = [root |-> root, context |-> contexts, owner |-> owner]
  BY <1>5
<1>8. \A p \in DOMAIN root : p \in Pages /\ root[p] \in DOMAIN contexts /\ contexts[root[p]] = p
  BY <1>3, <1>4 DEF TabsOK
<1>9. \A r \in DOMAIN contexts : contexts[r] \in Pages /\ r \in Nat /\ r < table.next /\ r \notin DOMAIN table.refs
  BY <1>3, <1>4 DEF TabsOK
<1>10. TabsOK(table, tabs')
  BY <1>6, <1>7, <1>8, <1>9 DEF TabsOK
<1>11. Moves(table, tabs, table', tabs')
  BY <1>2, <1>3, <1>4, <1>6, <1>10, GrowsItself DEF Moves
<1>12. OwnersOK' /\ HadOK'
  BY <1>2, <1>3, <1>4, <1>6 DEF OwnersOK, HadOK
<1>13. GoesOn /\ branch'.log = branch.log
  BY <1>2, <1>3, <1>11, <1>12, BranchMoves DEF GoesOn
<1>14. DeskStays(desk, desk')
  BY <1>2, DeskAsItWas
<1> QED
  BY <1>2, <1>13, <1>14, QuietEvent

--------------------------------------------------------------------------------
(* A session that resumes the branch, or an earlier point of it.             *)

\* What a log says of find_roots is still meant, and nothing else is.
LEMMA ToldAgain ==
  ASSUME NEW log, LogOK(log), TableOK(table'), tabs' = NoTabs,
         \A e \in FoundIn(log) : Kept(table', NoTabs, e) /\ e.ref \in DOMAIN table'.refs,
         NEW k \in 1 .. Len(log), NEW x \in Says(log[k]), x.by = "find"
  PROVE  ToldOK(table', tabs', x)
<1>0. DOMAIN NoTabs.context = {}
  BY DEF NoTabs
<1>1. PICK e \in log[k].entries :
        x = [actor |-> log[k].actor, session |-> log[k].session, by |-> log[k].kind, ref |-> e.ref, root |-> e.root]
  BY DEF Says
<1>2. x.ref = e.ref /\ x.root = e.root /\ log[k].kind = "find"
  BY <1>1
<1>3. e \in FoundIn(log)
  BY <1>2, FoundMeans DEF LogOK
<1>4. FoundEntry(e)
  BY <1>3 DEF LogOK
<1>5. /\ e.root \in Windows \cup Pages
      /\ e.root \in Windows => e.record.app = "app" /\ e.record.id = IdOf[e.root]
      /\ e.root \in Pages => e.record = PageRow(e.root)
  BY <1>4, RootsAssumption DEF FoundEntry, PageRow
<1>6. /\ x.ref \in Nat /\ x.ref < table'.next /\ x.ref \in DOMAIN table'.refs
      /\ WindowRecordIdentity(table'.refs[x.ref]) = WindowRecordIdentity(e.record)
  BY <1>2, <1>3, <1>4 DEF Kept, FoundEntry
<1>7. x.root \in Windows => table'.refs[x.ref].app = "app" /\ (IdOf[x.root] > 0 => table'.refs[x.ref].id = IdOf[x.root])
  BY <1>2, <1>5, <1>6, IdentityTells
<1> QED
  BY <1>0, <1>2, <1>5, <1>6, <1>7 DEF ToldOK

LEMMA JobSurvives ==
  ASSUME NEW s \in Nat, NEW t, NEW b, NEW d, DeskOK(d), NEW h, NEW j, JobOK(j, s, t, b, d, h), NEW k, SameBut(k, j),
         k.named = IF j.at \in {"resolve", "look"} THEN j.named \ Windows ELSE j.named, NEW n, NEW c
  PROVE  JobOK(k, s + 1, n, c, d, h)
<1>1. JobShape(j) /\ j.session \in Nat /\ j.session <= s
  BY DEF JobOK, JobShape
<1>2. k.session <= s + 1 /\ k.session # s + 1
  BY <1>1 DEF SameBut
<1>3. j.at = "resolve" => k.named = {}
  BY DEF JobOK, DeskOK
<1>4. j.at = "look" => k.named = {}
  BY DEF JobOK, DeskOK
<1>5. j.at \in {"aim", "deliver"} => k.named = {}
  BY DEF JobOK
<1>6. k.at = "pages" => \A e \in k.rows : FoundEntry(e) /\ e.root \in Windows
  BY DEF JobOK, SameBut
<1>7. DeltaOK(k, s + 1, n)
  <2>1. DeltaOK(j, s, t) /\ k.delta = j.delta
    BY DEF JobOK, SameBut
  <2> QED
    BY <1>2, <2>1 DEF DeltaOK
<1> QED
  BY <1>2, <1>3, <1>4, <1>5, <1>6, <1>7 DEF JobOK, SameBut

LEMMA NewSessionStep ==
  ASSUME RootsInv, NewSession
  PROVE  RootsInv'
<1>1. tabs' = NoTabs /\ desk' = desk /\ had' = had /\ Unnames(Windows, {"resolve", "look"})
  BY DEF NewSession
<1>2. DeskOK(desk) /\ TableOK(table) /\ TabsOK(table, tabs) /\ BranchOK /\ LogInv
  BY DEF RootsInv, TablesOK
<1>3. PICK n \in 0 .. Len(branch.log) :
        /\ branch' = [branch EXCEPT !.session = @ + 1, !.log = SubSeq(branch.log, 1, n), !.events = @ + 1]
        /\ table' = Reconstructed(SubSeq(branch.log, 1, n))
  BY DEF NewSession
<1> DEFINE log == SubSeq(branch.log, 1, n)
<1>4. /\ LogOK(log) /\ FoundIn(log) \subseteq FoundIn(branch.log) /\ Len(log) = n
      /\ \A k \in 1 .. n : k \in 1 .. Len(branch.log) /\ log[k] = branch.log[k]
  BY <1>2, EarlierLog DEF LogInv
<1>5. table' = Reconstructed(log)
  BY <1>3
<1>7. branch' = [branch EXCEPT !.session = @ + 1, !.log = log, !.events = @ + 1]
  BY <1>3
<1> HIDE DEF log
<1>8. BranchOK' /\ branch'.session = branch.session + 1 /\ branch'.log = log
  <2> DEFINE one == [branch EXCEPT !.session = @ + 1]
             two == [one EXCEPT !.log = log]
  <2>1. DOMAIN one = {"session", "calls", "events", "log"} /\ one.session = branch.session + 1 /\ one.events = branch.events
    BY <1>2 DEF BranchOK
  <2>2. branch' = [two EXCEPT !.events = branch.events + 1]
    BY <1>2, <1>7 DEF BranchOK
  <2> HIDE DEF one
  <2>3. DOMAIN two = {"session", "calls", "events", "log"} /\ two.session = branch.session + 1 /\ two.log = log
    BY <2>1
  <2> HIDE DEF two
  <2>4. DOMAIN branch' = {"session", "calls", "events", "log"} /\ branch'.session = branch.session + 1 /\ branch'.log = log
    BY <2>2, <2>3
  <2> QED
    BY <1>2, <2>4 DEF BranchOK
<1>9. table.next \in Nat /\ \A e \in FoundIn(log) : e.ref < table.next
  BY <1>2, <1>4 DEF TableOK, LogInv, Kept
<1>10. /\ TableOK(table')
       /\ \A e \in FoundIn(log) : Kept(table', NoTabs, e) /\ e.ref \in DOMAIN table'.refs
  BY <1>4, <1>5, <1>9, ReconstructedOK
<1>11. TabsOK(table', tabs') /\ OwnersOK'
  <2>1. /\ NoTabs.root = <<>> /\ NoTabs.context = <<>> /\ NoTabs.owner = <<>>
        /\ NoTabs = [root |-> NoTabs.root, context |-> NoTabs.context, owner |-> NoTabs.owner]
    BY DEF NoTabs
  <2>2. DOMAIN NoTabs.root = {} /\ DOMAIN NoTabs.context = {} /\ DOMAIN NoTabs.owner = {}
    BY <2>1
  <2>3. TabsOK(table', NoTabs)
    BY <2>1, <2>2 DEF TabsOK
  <2> QED
    BY <1>1, <2>2, <2>3 DEF OwnersOK
<1>12. LogInv'
  BY <1>1, <1>4, <1>8, <1>10 DEF LogInv
<1>13. ToldInv'
  <2>1. \A x \in Told' : x \in Told /\ \E k \in 1 .. Len(log) : x \in Says(log[k])
    <3>1. Told' = UNION {Says(log[k]) : k \in 1 .. Len(log)} /\ Told = UNION {Says(branch.log[k]) : k \in 1 .. Len(branch.log)}
      BY <1>8 DEF Told, Says
    <3> QED
      BY <1>4, <3>1
  <2>2. branch.session \in Nat
    BY <1>2 DEF BranchOK
  <2>3. ASSUME NEW x \in Told' PROVE x.session \in Nat /\ x.session <= branch'.session /\ x.session # branch'.session
    <3>1. x.session \in Nat /\ x.session <= branch.session
      BY <2>1 DEF RootsInv, ToldInv
    <3> QED
      BY <2>2, <3>1, <1>8
  <2>4. ASSUME NEW x \in Told', Meant(x)' PROVE ToldOK(table', tabs', x)
    <3>1. x.by = "find"
      BY <2>3, <2>4 DEF Meant
    <3>2. PICK k \in 1 .. Len(log) : x \in Says(log[k])
      BY <2>1
    <3> QED
      BY <1>1, <1>4, <1>10, <3>1, <3>2, ToldAgain
  <2>5. RefsApart'
    BY <2>1 DEF RootsInv, ToldInv, RefsApart
  <2>6. OwnPagesOnly'
    BY <1>1, <2>1 DEF RootsInv, ToldInv, OwnPagesOnly
  <2> QED
    BY <2>3, <2>4, <2>5, <2>6 DEF ToldInv
<1>14. "idle" \notin {"resolve", "look"}
  OBVIOUS
<1>15. ASSUME NEW c \in RootCalls PROVE jobs'[c] = NoJob \/ JobOK(jobs'[c], branch'.session, table', tabs', desk, had)
  <2>1. CASE jobs[c] = NoJob
    BY <1>1, <1>14, <2>1, UnnamesIs
  <2>2. CASE JobOK(jobs[c], branch.session, table, tabs, desk, had)
    <3>1. JobShape(jobs[c])
      BY <2>2 DEF JobOK
    <3>2. /\ SameBut(jobs'[c], jobs[c])
          /\ jobs'[c].named = IF jobs[c].at \in {"resolve", "look"} THEN jobs[c].named \ Windows ELSE jobs[c].named
      BY <1>1, <1>14, <3>1, UnnamesIs
    <3>3. branch.session \in Nat
      BY <1>2 DEF BranchOK
    <3>4. JobOK(jobs'[c], branch.session + 1, table', tabs', desk, had)
      BY <1>2, <2>2, <3>2, <3>3, JobSurvives
    <3> QED
      BY <1>8, <3>4
  <2> QED
    BY <2>1, <2>2 DEF RootsInv, JobsInv
<1>16. jobs' = [c \in RootCalls |-> jobs'[c]]
  BY <1>1, <1>14, UnnamesIs
<1>17. JobsInv'
  BY <1>1, <1>15 DEF JobsInv
<1>18. DeskOK(desk') /\ HadOK'
  BY <1>1 DEF RootsInv, HadOK
<1> QED
  BY <1>8, <1>10, <1>11, <1>12, <1>13, <1>16, <1>17, <1>18 DEF RootsInv, TablesOK

--------------------------------------------------------------------------------
(* The theorems.                                                             *)

LEMMA RootsInvInit ==
  ASSUME RootsInit
  PROVE  RootsInv
<1>1. DeskOK(desk)
  BY RootsAssumption DEF RootsInit, DeskOK
<1>2. EmptyTable.refs = <<>> /\ EmptyTable.by = <<>> /\ EmptyTable.next = 1
  BY DEF EmptyTable
<1>3. TableOK(EmptyTable)
  BY <1>2 DEF TableOK, EmptyTable
<1>4. NoTabs.root = <<>> /\ NoTabs.context = <<>> /\ NoTabs.owner = <<>>
  BY DEF NoTabs
<1>5. TabsOK(EmptyTable, NoTabs)
  BY <1>4 DEF TabsOK, NoTabs
<1>6. table = EmptyTable /\ tabs = NoTabs /\ had = [p \in Pages |-> {}]
  BY DEF RootsInit
<1>7. TablesOK /\ HadOK /\ OwnersOK
  BY <1>3, <1>4, <1>5, <1>6 DEF TablesOK, HadOK, OwnersOK
<1>8. BranchOK /\ branch.log = <<>>
  BY DEF RootsInit, BranchOK
<1>9. FoundIn(<<>>) = {} /\ <<>> \in Seq(Range(<<>>)) /\ Len(<<>>) = 0
  BY DEF FoundIn
<1>10. LogInv
  BY <1>8, <1>9 DEF LogInv, LogOK
<1>11. ToldInv
  BY <1>8, <1>9 DEF Told, ToldInv, RefsApart, OwnPagesOnly
<1>12. jobs = [c \in RootCalls |-> jobs[c]] /\ JobsInv
  BY DEF RootsInit, JobsInv
<1> QED
  BY <1>1, <1>7, <1>8, <1>10, <1>11, <1>12 DEF RootsInv

LEMMA RootsInvStep ==
  ASSUME RootsInv, [RootsNext]_rootVars
  PROVE  RootsInv'
<1>1. ASSUME NEW c \in RootCalls, NEW a \in RootActors,
             \/ FindWindows(c, a) \/ ObserveFront(c, a)
             \/ \E r \in {x.ref : x \in Told} : Observe(c, a, r)
             \/ \E p \in Pages : Launch(c, a, p)
             \/ \E t \in targets : Act(c, a, t)
      PROVE  RootsInv'
  BY <1>1, FindWindowsStep, ObserveFrontStep, ObserveStep, LaunchStep, ActStep
<1>2. ASSUME NEW c \in RootCalls,
             FindPages(c) \/ Resolve(c) \/ Looks(c) \/ Snapshot(c) \/ Aim(c) \/ Delivers(c)
      PROVE  RootsInv'
  BY <1>2, FindPagesStep, ResolveStep, LooksStep, SnapshotStep, AimStep, DeliversStep
<1>3. CASE WindowOpens \/ WindowCloses \/ HelperRestarts \/ HandoffManagedRoot \/ ReleaseManagedRootsForActor \/ NewSession
  BY <1>3, WindowOpensStep, WindowClosesStep, HelperRestartsStep, HandoffStep, ReleaseStep, NewSessionStep
<1>4. CASE UNCHANGED rootVars
  BY <1>4 DEF rootVars, RootsInv, TablesOK, HadOK, OwnersOK, BranchOK, LogInv, ToldInv, RefsApart, OwnPagesOnly, Told, Meant, JobsInv
<1> QED
  BY <1>1, <1>2, <1>3, <1>4 DEF RootsNext

\* The inductive invariant: the tables lead where they say, what the branch still
\* holds of find_roots is in them, and nobody was told of another's page.
THEOREM RootsInductive == RootsSafety => []RootsInv
<1>1. RootsInit => RootsInv
  BY RootsInvInit
<1>2. RootsInv /\ [RootsNext]_rootVars => RootsInv'
  BY RootsInvStep
<1> QED
  BY <1>1, <1>2, PTL DEF RootsSafety

\* A ref that was given away stays with its root: no page's ref is anything else's
\* in its session, nor in later ones if find_roots gave it, and what find_roots
\* listed is found again by its id after any number of resumes (storeWindowRef,
\* storeBrowserRootRef, modelRefForRootDelta, reconstructStateFromBranch).
THEOREM RefsAreKept == RootsSafety => []RefsKeepTheirRoots
<1>1. ASSUME RootsInv, NEW e \in FoundIn(branch.log), e.record.id > 0
      PROVE  e.ref \in DOMAIN table.refs /\ table.refs[e.ref].id = e.record.id
  <2>1. FoundEntry(e) /\ Kept(table, tabs, e)
    BY <1>1 DEF RootsInv, LogInv, LogOK
  <2>2. CASE e.root \in Windows
    <3>1. e.ref \in DOMAIN table.refs /\ WindowRecordIdentity(table.refs[e.ref]) = WindowRecordIdentity(e.record)
      BY <2>1, <2>2 DEF Kept
    <3> QED
      BY <1>1, <3>1, IdentityTells
  <2>3. CASE e.root \notin Windows
    <3>1. e.record.id = 0
      BY <2>1, <2>3 DEF FoundEntry, PageRow
    <3> QED
      BY <1>1, <3>1
  <2> QED
    BY <2>2, <2>3
<1>2. RootsInv => RefsKeepTheirRoots
  BY <1>1 DEF RootsInv, ToldInv, RefsKeepTheirRoots, FoundRefsKept
<1> QED
  BY <1>2, RootsInductive, PTL

\* observe_ui of a ref of find_roots looks at the window that was listed, as long
\* as the window has an id and stays open and the helper lives: never at another
\* one with its title (the ranked resolution, and windowElement in the helper).
THEOREM ObservesTheNamedWindow == RootsSafety => []NamedWindowSeen
<1>1. ASSUME RootsInv, NEW c \in RootCalls, jobs[c].at = "look", jobs[c].named # {}
      PROVE  LedTo(jobs[c].target) \in jobs[c].named
  <2> DEFINE t == jobs[c].target
             known == {w \in Windows : t.native > 0 /\ desk.native[w] = t.native}
             ided == {w \in desk.open : t.id > 0 /\ IdOf[w] = t.id}
             led == IF known # {} THEN known \cap desk.open ELSE ided
  <2>1. DeskOK(desk)
    BY <1>1 DEF RootsInv
  <2>2. JobOK(jobs[c], branch.session, table, tabs, desk, had)
    BY <1>1, JobAt
  <2>3. \A v \in jobs[c].named : v \in desk.open /\ v \in Windows /\ desk.native[v] > 0 /\ desk.native[v] = t.native
    BY <1>1, <2>1, <2>2 DEF JobOK, DeskOK
  <2>4. PICK v : v \in jobs[c].named
    BY <1>1
  <2>5. v \in known /\ v \in desk.open
    BY <2>3, <2>4
  <2>6. \A w \in known : w = v
    BY <2>1, <2>3, <2>4 DEF DeskOK
  <2>7. led = {v}
    BY <2>5, <2>6
  <2>8. LedTo(t) = IF led = {} THEN NoRoot ELSE CHOOSE w \in led : TRUE
    BY DEF LedTo
  <2> HIDE DEF led
  <2> QED
    BY <2>4, <2>7, <2>8
<1>2. RootsInv => NamedWindowSeen
  BY <1>1 DEF NamedWindowSeen
<1> QED
  BY <1>2, RootsInductive, PTL

\* Nobody is told of a page that was never his, by find_roots, observe_ui or
\* launch_browser, whatever is handed over, released or resumed.
THEOREM TellsOfOwnPages == RootsSafety => []OwnPagesOnly
<1>1. RootsInv => OwnPagesOnly
  BY DEF RootsInv, ToldInv
<1> QED
  BY <1>1, RootsInductive, PTL

--------------------------------------------------------------------------------
(* Ownership and admission.                                                  *)

USE ActorAssumption, LimitAssumption, TaskAssumption, MarkerAssumption

--------------------------------------------------------------------------------
(* What the count of mutations in flight is good for.                        *)

\* The mutations of a resource are finitely many.
LEMMA MutatingFinite ==
  ASSUME NEW r \in Resource
  PROVE  /\ IsFiniteSet({t \in Task : Mutating(t, r)})
         /\ Cardinality({t \in Task : Mutating(t, r)}) \in Nat
BY FS_Subset, FS_CardinalityType

\* While one is running the count is not 0.
LEMMA Busy ==
  ASSUME InFlightCounted, NEW t \in Task, NEW r \in Resource, Mutating(t, r)
  PROVE  inflight[r] \in Nat \ {0}
<1> DEFINE S == {u \in Task : Mutating(u, r)}
<1>1. IsFiniteSet(S) /\ Cardinality(S) \in Nat
  BY MutatingFinite
<1>2. S # {}
  OBVIOUS
<1>3. Cardinality(S) # 0
  BY <1>1, <1>2, FS_EmptySet
<1>4. QED BY <1>1, <1>3 DEF InFlightCounted

\* When the count is 1, it is the only one.
LEMMA Alone ==
  ASSUME InFlightCounted, NEW r \in Resource, inflight[r] = 1,
         NEW t \in Task, Mutating(t, r), NEW u \in Task, Mutating(u, r)
  PROVE  t = u
<1> DEFINE S == {v \in Task : Mutating(v, r)}
<1>1. IsFiniteSet(S) /\ Cardinality(S) = 1
  BY MutatingFinite DEF InFlightCounted
<1>2. PICK v : S = {v}
  BY <1>1, FS_Singleton
<1>3. t \in S /\ u \in S
  OBVIOUS
<1>4. QED BY <1>2, <1>3

\* A running mutation keeps its claim from lapsing.
LEMMA BusyStands ==
  ASSUME InFlightCounted, NEW t \in Task, NEW r \in Resource, Mutating(t, r)
  PROVE  ~Lapsed(r) /\ LiveClaim(r) = claim[r]
BY Busy DEF Lapsed, LiveClaim

\* What liveClaim leaves is what was there, or nothing.
LEMMA LiveClaimType ==
  ASSUME TypeOK, NEW r \in Resource
  PROVE  /\ LiveClaim(r) \in Claim \cup {NoClaim}
         /\ LiveClaim(r) # NoClaim => LiveClaim(r) = claim[r] /\ ~Lapsed(r)
BY DEF TypeOK, LiveClaim

\* A fresh claim is well formed.
LEMMA FreshClaimType ==
  ASSUME TypeOK, leases < MaxLeases, NEW a \in Actor, NEW g \in Nat \ {0}
  PROVE  /\ FreshClaim(a, g) \in Claim /\ FreshClaim(a, g) # NoClaim
         /\ leases + 1 \in 0 .. MaxLeases
<1>1. leases + 1 \in Lease
  BY DEF TypeOK, Lease
<1>2. FreshClaim(a, g) \in Claim
  BY <1>1 DEF FreshClaim, Claim
<1>3. QED BY <1>1, <1>2 DEF Lease

\* acquire touches the claim on its resource only, and keeps its owner.
LEMMA TakeClaim ==
  ASSUME TypeOK, NEW a \in Actor, NEW r \in Resource, Take(a, r),
         LiveClaim(r) = NoClaim \/ OwnedBy(a, r)
  PROVE  /\ claim' \in [Resource -> Claim \cup {NoClaim}]
         /\ leases' \in 0 .. MaxLeases
         /\ \A s \in Resource \ {r} : claim'[s] = claim[s]
         /\ claim'[r] # NoClaim /\ claim'[r].actor = a
         /\ leases <= leases'
         /\ claim'[r].lease <= leases' \/ claim'[r].lease = claim[r].lease
<1>1. CASE LiveClaim(r) = NoClaim
  BY <1>1, FreshClaimType DEF Take, TypeOK, FreshClaim
<1>2. CASE LiveClaim(r) # NoClaim
  <2>1. claim[r] \in Claim /\ claim[r].actor = a /\ leases' = leases
    BY <1>2, LiveClaimType DEF Take, OwnedBy
  <2>2. claim' = [claim EXCEPT ![r].expired = FALSE]
    BY <1>2 DEF Take
  <2>3. [claim[r] EXCEPT !.expired = FALSE] \in Claim
    BY <2>1 DEF Claim
  <2>4. claim' \in [Resource -> Claim \cup {NoClaim}] /\ claim'[r] = [claim[r] EXCEPT !.expired = FALSE]
    BY <2>2, <2>3 DEF TypeOK
  <2>5. claim'[r].actor = a /\ claim'[r].lease = claim[r].lease
    BY <2>1, <2>4 DEF Claim
  <2>6. leases' \in 0 .. MaxLeases /\ leases <= leases'
    BY <2>1 DEF TypeOK
  <2>7. claim'[r] # NoClaim
    BY <2>3, <2>4
  <2>8. \A s \in Resource \ {r} : claim'[s] = claim[s]
    BY <2>2 DEF TypeOK
  <2>9. QED BY <2>4, <2>5, <2>6, <2>7, <2>8
<1>3. QED BY <1>1, <1>2

--------------------------------------------------------------------------------
(* The invariant.                                                            *)

\* It holds to begin with.
LEMMA OwnershipInit == Init => OwnershipInv
<1> SUFFICES ASSUME Init PROVE OwnershipInv
  OBVIOUS
<1>1. \A t \in Task, r \in Resource : ~Mutating(t, r)
  BY DEF Init, Mutating
<1>2. TypeOK
  BY DEF Init, TypeOK, Status
<1>3. InFlightCounted
  <2> SUFFICES ASSUME NEW r \in Resource
               PROVE  inflight[r] = Cardinality({t \in Task : Mutating(t, r)})
    BY DEF InFlightCounted
  <2>1. {t \in Task : Mutating(t, r)} = {}
    BY <1>1
  <2>2. QED BY <2>1, FS_EmptySet DEF Init
<1>4. Fenced /\ ActorsKnown /\ LeasesIssued
  BY <1>1 DEF Init, Fenced, ActorsKnown, LeasesIssued
<1>5. QED BY <1>2, <1>3, <1>4 DEF OwnershipInv

\* A step that leaves the calls alone keeps the count; it keeps the fence as well
\* if it leaves claims in flight to their owners.
LEMMA CallsAlone ==
  ASSUME OwnershipInv, UNCHANGED <<inflight, job>>,
         \A r \in Resource : inflight[r] > 0 /\ claim[r] # NoClaim =>
           claim'[r] # NoClaim /\ claim'[r].actor = claim[r].actor
  PROVE  InFlightCounted' /\ Fenced'
<1>1. \A t \in Task, r \in Resource : Mutating(t, r)' <=> Mutating(t, r)
  BY DEF Mutating
<1>2. InFlightCounted'
  <2> SUFFICES ASSUME NEW r \in Resource
               PROVE  inflight'[r] = Cardinality({t \in Task : Mutating(t, r)'})
    BY DEF InFlightCounted
  <2>1. {t \in Task : Mutating(t, r)'} = {t \in Task : Mutating(t, r)}
    BY <1>1
  <2>2. QED BY <2>1 DEF OwnershipInv, InFlightCounted
<1>3. Fenced'
  <2> SUFFICES ASSUME NEW t \in Task, NEW r \in Resource, Mutating(t, r)'
               PROVE  claim'[r] # NoClaim /\ claim'[r].actor = job'[t].actor
    BY DEF Fenced
  <2>1. Mutating(t, r) /\ inflight[r] > 0
    BY <1>1, Busy DEF OwnershipInv
  <2>2. claim[r] # NoClaim /\ claim[r].actor = job[t].actor
    BY <2>1 DEF OwnershipInv, Fenced
  <2>3. QED BY <2>1, <2>2
<1>4. QED BY <1>2, <1>3

\* What liveClaim deletes is never in flight.
LEMMA SweepKeeps ==
  ASSUME OwnershipInv
  PROVE  /\ [r \in Resource |-> LiveClaim(r)] \in [Resource -> Claim \cup {NoClaim}]
         /\ \A r \in Resource : inflight[r] > 0 => LiveClaim(r) = claim[r]
         /\ \A r \in Resource : LiveClaim(r) # NoClaim => LiveClaim(r) = claim[r]
<1>1. \A r \in Resource : inflight[r] > 0 => LiveClaim(r) = claim[r]
  BY DEF LiveClaim, Lapsed, OwnershipInv, TypeOK
<1>2. QED BY <1>1, LiveClaimType DEF OwnershipInv

\* Every step keeps the invariant.
LEMMA OwnershipStep == OwnershipInv /\ [Next]_cpVars => OwnershipInv'
<1> SUFFICES ASSUME OwnershipInv, [Next]_cpVars PROVE OwnershipInv'
  OBVIOUS
<1> USE DEF cpVars, actorVars
<1>0. /\ TypeOK /\ InFlightCounted /\ Fenced /\ ActorsKnown /\ LeasesIssued
      /\ claim \in [Resource -> Claim \cup {NoClaim}]
      /\ inflight \in [Resource -> Nat] /\ job \in [Task -> Job \cup {Idle}]
      /\ leases \in 0 .. MaxLeases /\ MaxLeases \in Nat
      /\ status \in [Actor -> Status] /\ Default \in Actor
  BY DEF OwnershipInv, TypeOK
<1>1. ASSUME NEW a \in Actor, CreateActor(a) PROVE OwnershipInv'
  <2>1. TypeOK'
    BY <1>0, <1>1, SweepKeeps DEF CreateActor, Forget, TypeOK, Status
  <2>2. InFlightCounted' /\ Fenced'
    BY <1>0, <1>1, SweepKeeps, CallsAlone DEF CreateActor
  <2>3. ActorsKnown'
    BY <1>0, <1>1 DEF CreateActor, Forget, ActorsKnown, Job
  <2>4. LeasesIssued'
    BY <1>0, <1>1, SweepKeeps DEF CreateActor, LeasesIssued
  <2>5. QED BY <2>1, <2>2, <2>3, <2>4 DEF OwnershipInv
<1>2. CASE Gc
  <2>1. TypeOK'
    BY <1>0, <1>2, SweepKeeps DEF Gc, Forget, TypeOK, Status
  <2>2. InFlightCounted' /\ Fenced'
    BY <1>0, <1>2, SweepKeeps, CallsAlone DEF Gc
  <2>3. ActorsKnown'
    BY <1>0, <1>2 DEF Gc, Forget, ActorsKnown, Job
  <2>4. LeasesIssued'
    BY <1>0, <1>2, SweepKeeps DEF Gc, LeasesIssued
  <2>5. QED BY <2>1, <2>2, <2>3, <2>4 DEF OwnershipInv
<1>3. ASSUME NEW a \in Actor, CloseActor(a) PROVE OwnershipInv'
  <2>1. TypeOK'
    BY <1>0, <1>3 DEF CloseActor, TypeOK, Status
  <2>2. InFlightCounted' /\ Fenced'
    BY <1>0, <1>3, CallsAlone DEF CloseActor
  <2>3. ActorsKnown'
    BY <1>0, <1>3 DEF CloseActor, ActorsKnown, Job
  <2>4. LeasesIssued'
    BY <1>0, <1>3 DEF CloseActor, LeasesIssued
  <2>5. QED BY <2>1, <2>2, <2>3, <2>4 DEF OwnershipInv
<1>4. ASSUME NEW a \in Actor, DeadlinePasses(a) \/ MinutePasses(a) PROVE OwnershipInv'
  <2>1. TypeOK'
    BY <1>0, <1>4 DEF DeadlinePasses, MinutePasses, TypeOK, Status
  <2>2. InFlightCounted' /\ Fenced'
    BY <1>0, <1>4, CallsAlone DEF DeadlinePasses, MinutePasses
  <2>3. ActorsKnown' /\ LeasesIssued'
    BY <1>0, <1>4 DEF DeadlinePasses, MinutePasses, ActorsKnown, LeasesIssued, Job
  <2>4. QED BY <2>1, <2>2, <2>3 DEF OwnershipInv
<1>5. ASSUME NEW a \in Actor, NEW r \in Resource, Acquire(a, r) PROVE OwnershipInv'
  <2>1. /\ claim' \in [Resource -> Claim \cup {NoClaim}] /\ leases' \in 0 .. MaxLeases
        /\ \A s \in Resource \ {r} : claim'[s] = claim[s]
        /\ claim'[r] # NoClaim /\ claim'[r].actor = a /\ leases <= leases'
        /\ claim'[r].lease <= leases' \/ claim'[r].lease = claim[r].lease
    BY <1>0, <1>5, TakeClaim DEF Acquire
  <2>2. inflight[r] > 0 /\ claim[r] # NoClaim => claim[r].actor = a
    BY <1>0, <1>5, SweepKeeps DEF Acquire, OwnedBy
  <2>3. TypeOK'
    BY <1>0, <1>5, <2>1 DEF Acquire, TypeOK
  <2>4. InFlightCounted' /\ Fenced'
    BY <1>0, <1>5, <2>1, <2>2, CallsAlone DEF Acquire
  <2>5. ActorsKnown'
    BY <1>0, <1>5 DEF Acquire, ActorsKnown
  <2>6. LeasesIssued'
    <3>1. claim'[r].lease <= leases'
      BY <1>0, <1>5, <2>1 DEF Acquire, Take, LeasesIssued, OwnedBy, LiveClaim, FreshClaim
    <3>2. QED BY <1>0, <2>1, <3>1 DEF LeasesIssued, Claim, Lease
  <2>7. QED BY <2>3, <2>4, <2>5, <2>6 DEF OwnershipInv
<1>6. ASSUME NEW a \in Actor, NEW r \in Resource, NEW l \in Lease, Renew(a, r, l)
      PROVE  OwnershipInv'
  <2>1. claim[r] \in Claim
    BY <1>0, <1>6, LiveClaimType DEF Renew, Authorizes, OwnedBy
  <2>2. /\ claim' \in [Resource -> Claim \cup {NoClaim}]
        /\ \A s \in Resource : claim[s] # NoClaim =>
             claim'[s] # NoClaim /\ claim'[s].actor = claim[s].actor /\ claim'[s].lease = claim[s].lease
        /\ \A s \in Resource : claim'[s] # NoClaim => claim[s] # NoClaim
    <3>1. [claim[r] EXCEPT !.expired = FALSE] \in Claim
      BY <2>1 DEF Claim
    <3>2. QED BY <1>0, <1>6, <2>1, <3>1 DEF Renew, Claim
  <2>3. TypeOK'
    BY <1>0, <1>6, <2>2 DEF Renew, TypeOK
  <2>4. InFlightCounted' /\ Fenced'
    BY <1>0, <1>6, <2>2, CallsAlone DEF Renew
  <2>5. ActorsKnown' /\ LeasesIssued'
    BY <1>0, <1>6, <2>2 DEF Renew, ActorsKnown, LeasesIssued
  <2>6. QED BY <2>3, <2>4, <2>5 DEF OwnershipInv
<1>7. ASSUME NEW r \in Resource, Refuse(r) PROVE OwnershipInv'
  <2>1. inflight[r] = 0
    BY <1>7 DEF Refuse, Lapsed
  <2>2. TypeOK'
    BY <1>0, <1>7 DEF Refuse, TypeOK
  <2>3. InFlightCounted' /\ Fenced'
    BY <1>0, <1>7, <2>1, CallsAlone DEF Refuse
  <2>4. ActorsKnown' /\ LeasesIssued'
    BY <1>0, <1>7 DEF Refuse, ActorsKnown, LeasesIssued
  <2>5. QED BY <2>2, <2>3, <2>4 DEF OwnershipInv
<1>8. ASSUME NEW a \in Actor, NEW r \in Resource, NEW l \in Lease, Release(a, r, l)
      PROVE  OwnershipInv'
  <2>1. TypeOK'
    BY <1>0, <1>8 DEF Release, TypeOK
  <2>2. InFlightCounted' /\ Fenced'
    BY <1>0, <1>8, CallsAlone DEF Release
  <2>3. ActorsKnown' /\ LeasesIssued'
    BY <1>0, <1>8 DEF Release, ActorsKnown, LeasesIssued
  <2>4. QED BY <2>1, <2>2, <2>3 DEF OwnershipInv
<1>9. ASSUME NEW a \in Actor, NEW b \in Actor, NEW r \in Resource, NEW l \in Lease,
             Handoff(a, r, l, b)
      PROVE  OwnershipInv'
  <2> DEFINE c == FreshClaim(b, claim[r].generation + 1)
  <2>1. claim[r] \in Claim
    BY <1>0, <1>9, LiveClaimType DEF Handoff, Authorizes, OwnedBy
  <2>2. claim[r].generation + 1 \in Nat \ {0}
    BY <2>1 DEF Claim
  <2>3. c \in Claim /\ c # NoClaim /\ leases + 1 \in 0 .. MaxLeases
    BY <1>0, <1>9, <2>2, FreshClaimType DEF Handoff
  <2>4. TypeOK'
    BY <1>0, <1>9, <2>3 DEF Handoff, TypeOK
  <2>5. InFlightCounted' /\ Fenced'
    BY <1>0, <1>9, CallsAlone DEF Handoff
  <2>6. ActorsKnown'
    BY <1>0, <1>9 DEF Handoff, ActorsKnown
  <2>7. LeasesIssued'
    BY <1>0, <1>9, <2>3 DEF Handoff, LeasesIssued, FreshClaim, Claim, Lease
  <2>8. QED BY <2>4, <2>5, <2>6, <2>7 DEF OwnershipInv
<1>10. ASSUME NEW r \in Resource, Expire(r) PROVE OwnershipInv'
  <2>1. claim[r] \in Claim
    BY <1>0, <1>10 DEF Expire
  <2>2. [claim[r] EXCEPT !.expired = TRUE] \in Claim
    BY <2>1 DEF Claim
  <2>3. /\ claim' \in [Resource -> Claim \cup {NoClaim}]
        /\ \A s \in Resource : claim[s] # NoClaim =>
             claim'[s] # NoClaim /\ claim'[s].actor = claim[s].actor /\ claim'[s].lease = claim[s].lease
        /\ \A s \in Resource : claim'[s] # NoClaim => claim[s] # NoClaim
    BY <1>0, <1>10, <2>1, <2>2 DEF Expire, Claim
  <2>4. TypeOK'
    BY <1>0, <1>10, <2>3 DEF Expire, TypeOK
  <2>5. InFlightCounted' /\ Fenced'
    BY <1>0, <1>10, <2>3, CallsAlone DEF Expire
  <2>6. ActorsKnown' /\ LeasesIssued'
    BY <1>0, <1>10, <2>3 DEF Expire, ActorsKnown, LeasesIssued
  <2>7. QED BY <2>4, <2>5, <2>6 DEF OwnershipInv
<1>11. ASSUME NEW t \in Task, NEW r \in Resource, BeginRefused(t, r) PROVE OwnershipInv'
  <2>1. /\ claim' \in [Resource -> Claim \cup {NoClaim}]
        /\ \A s \in Resource : inflight[s] > 0 => claim'[s] = claim[s]
        /\ \A s \in Resource : claim'[s] # NoClaim => claim'[s] = claim[s]
    BY <1>0, <1>11, SweepKeeps, LiveClaimType DEF BeginRefused
  <2>2. TypeOK'
    BY <1>0, <1>11, <2>1 DEF BeginRefused, WithinBudget, Spend, TypeOK, Ready, Job
  <2>3. InFlightCounted' /\ Fenced'
    BY <1>0, <1>11, <2>1, CallsAlone DEF BeginRefused
  <2>4. ActorsKnown' /\ LeasesIssued'
    BY <1>0, <1>11, <2>1 DEF BeginRefused, ActorsKnown, LeasesIssued
  <2>5. QED BY <2>2, <2>3, <2>4 DEF OwnershipInv
<1>12. ASSUME NEW t \in Task,
              (\E a \in Actor : Admit(t, a)) \/ Finish(t)
       PROVE  OwnershipInv'
  <2>1. \A u \in Task, r \in Resource :
          (Mutating(u, r)' <=> Mutating(u, r)) /\ (Mutating(u, r) => job'[u] = job[u])
    BY <1>0, <1>12 DEF Admit, Finish, Mutating, Job
  <2>2. TypeOK'
    BY <1>0, <1>12 DEF Admit, Finish, TypeOK, Job
  <2>3. InFlightCounted'
    <3> SUFFICES ASSUME NEW r \in Resource
                 PROVE  inflight'[r] = Cardinality({u \in Task : Mutating(u, r)'})
      BY DEF InFlightCounted
    <3>1. {u \in Task : Mutating(u, r)'} = {u \in Task : Mutating(u, r)}
      BY <2>1
    <3>2. QED BY <1>0, <1>12, <3>1 DEF Admit, Finish, InFlightCounted
  <2>4. Fenced'
    BY <1>0, <1>12, <2>1 DEF Admit, Finish, Fenced
  <2>5. ActorsKnown' /\ LeasesIssued'
    BY <1>0, <1>12 DEF Admit, Finish, ActorsKnown, LeasesIssued, Job
  <2>6. QED BY <2>2, <2>3, <2>4, <2>5 DEF OwnershipInv
<1>13. ASSUME NEW t \in Task, NEW r \in Resource, Begin(t, r) PROVE OwnershipInv'
  <2> DEFINE a == job[t].actor
  <2>1. /\ job[t] \in Job /\ job[t].on = Nothing /\ a \in Actor
        /\ job' = [job EXCEPT ![t].on = r] /\ [job[t] EXCEPT !.on = r] \in Job
    BY <1>0, <1>13 DEF Begin, Ready, Job
  <2>2. \A u \in Task, s \in Resource :
          Mutating(u, s)' <=> Mutating(u, s) \/ (u = t /\ s = r)
    BY <1>0, <2>1 DEF Mutating, Job
  <2>3. /\ claim' \in [Resource -> Claim \cup {NoClaim}] /\ leases' \in 0 .. MaxLeases
        /\ \A s \in Resource \ {r} : claim'[s] = claim[s]
        /\ claim'[r] # NoClaim /\ claim'[r].actor = a
    <3>1. CASE OwnedBy(a, r) /\ UNCHANGED <<claim, leases>>
      BY <1>0, <3>1, LiveClaimType DEF OwnedBy
    <3>2. CASE LiveClaim(r) = NoClaim /\ Take(a, r)
      BY <1>0, <2>1, <3>2, TakeClaim
    <3>3. QED BY <1>13, <3>1, <3>2 DEF Begin
  <2>4. TypeOK'
    <3>1. used' \in [Actor -> Nat] /\ \A b \in DOMAIN Budget : used'[b] <= Budget[b]
      BY <1>0, <1>13, <2>1 DEF Begin, WithinBudget, Spend, TypeOK
    <3>2. inflight' \in [Resource -> Nat] /\ job' \in [Task -> Job \cup {Idle}]
      BY <1>0, <1>13, <2>1 DEF Begin
    <3>3. QED BY <1>0, <1>13, <2>3, <3>1, <3>2 DEF Begin, TypeOK
  <2>5. InFlightCounted'
    <3> SUFFICES ASSUME NEW s \in Resource
                 PROVE  inflight'[s] = Cardinality({u \in Task : Mutating(u, s)'})
      BY DEF InFlightCounted
    <3> DEFINE S == {u \in Task : Mutating(u, s)}
    <3>1. CASE s = r
      <4>1. {u \in Task : Mutating(u, s)'} = S \cup {t} /\ t \notin S
        BY <2>1, <2>2, <3>1 DEF Mutating
      <4>2. IsFiniteSet(S)
        BY MutatingFinite
      <4>3. Cardinality(S \cup {t}) = Cardinality(S) + 1
        BY <4>1, <4>2, FS_AddElement
      <4>4. QED BY <1>0, <1>13, <3>1, <4>1, <4>3 DEF Begin, InFlightCounted
    <3>2. CASE s # r
      <4>1. {u \in Task : Mutating(u, s)'} = S
        BY <2>2, <3>2
      <4>2. QED BY <1>0, <1>13, <3>2, <4>1 DEF Begin, InFlightCounted
    <3>3. QED BY <3>1, <3>2
  <2>6. Fenced'
    <3> SUFFICES ASSUME NEW u \in Task, NEW s \in Resource, Mutating(u, s)'
                 PROVE  claim'[s] # NoClaim /\ claim'[s].actor = job'[u].actor
      BY DEF Fenced
    <3>1. job'[u].actor = job[u].actor
      BY <1>0, <2>1, <2>2 DEF Mutating, Job
    <3>2. CASE u = t /\ s = r
      BY <2>3, <3>1, <3>2
    <3>3. CASE ~(u = t /\ s = r)
      <4>1. Mutating(u, s) /\ claim[s] # NoClaim /\ claim[s].actor = job[u].actor
        BY <1>0, <2>2, <3>3 DEF Fenced
      <4>2. LiveClaim(s) = claim[s]
        BY <1>0, <4>1, BusyStands
      <4>3. CASE s # r
        BY <2>3, <3>1, <4>1, <4>3
      <4>4. CASE s = r
        <5>1. OwnedBy(a, r)
          BY <1>13, <4>1, <4>2, <4>4 DEF Begin
        <5>2. QED BY <2>3, <3>1, <4>1, <4>2, <4>4, <5>1 DEF OwnedBy
      <4>5. QED BY <4>3, <4>4
    <3>4. QED BY <3>2, <3>3
  <2>7. ActorsKnown'
    BY <1>0, <1>13, <2>1 DEF Begin, Ready, ActorsKnown, Job
  <2>8. LeasesIssued'
    <3>1. CASE UNCHANGED <<claim, leases>>
      BY <1>0, <3>1 DEF LeasesIssued
    <3>2. CASE LiveClaim(r) = NoClaim /\ Take(a, r)
      BY <1>0, <2>3, <3>2 DEF Take, FreshClaim, LeasesIssued, Claim, Lease
    <3>3. QED BY <1>13, <3>1, <3>2 DEF Begin
  <2>9. QED BY <2>4, <2>5, <2>6, <2>7, <2>8 DEF OwnershipInv
<1>14. ASSUME NEW t \in Task, NEW r \in Resource, End(t, r) PROVE OwnershipInv'
  <2>1. /\ Mutating(t, r) /\ job[t] \in Job
        /\ job' = [job EXCEPT ![t].on = Nothing] /\ [job[t] EXCEPT !.on = Nothing] \in Job
    BY <1>0, <1>14 DEF End, Mutating, Job
  <2>2. \A u \in Task, s \in Resource :
          Mutating(u, s)' <=> Mutating(u, s) /\ ~(u = t /\ s = r)
    BY <1>0, <2>1 DEF Mutating, Job
  <2>3. inflight[r] \in Nat \ {0}
    BY <1>0, <2>1, Busy
  <2>4. /\ claim' \in [Resource -> Claim \cup {NoClaim}]
        /\ \A s \in Resource : s # r \/ inflight[r] # 1 => claim'[s] = claim[s]
        /\ \A s \in Resource : claim'[s] # NoClaim => claim'[s] = claim[s]
    BY <1>0, <1>14 DEF End
  <2>5. TypeOK'
    BY <1>0, <1>14, <2>1, <2>3, <2>4 DEF End, TypeOK
  <2>6. InFlightCounted'
    <3> SUFFICES ASSUME NEW s \in Resource
                 PROVE  inflight'[s] = Cardinality({u \in Task : Mutating(u, s)'})
      BY DEF InFlightCounted
    <3> DEFINE S == {u \in Task : Mutating(u, s)}
    <3>1. CASE s = r
      <4>1. {u \in Task : Mutating(u, s)'} = S \ {t} /\ t \in S
        BY <2>1, <2>2, <3>1
      <4>2. IsFiniteSet(S)
        BY MutatingFinite
      <4>3. Cardinality(S \ {t}) = Cardinality(S) - 1
        BY <4>1, <4>2, FS_RemoveElement
      <4>4. QED BY <1>0, <1>14, <3>1, <4>1, <4>3 DEF End, InFlightCounted
    <3>2. CASE s # r
      <4>1. {u \in Task : Mutating(u, s)'} = S
        BY <2>2, <3>2
      <4>2. QED BY <1>0, <1>14, <3>2, <4>1 DEF End, InFlightCounted
    <3>3. QED BY <3>1, <3>2
  <2>7. Fenced'
    <3> SUFFICES ASSUME NEW u \in Task, NEW s \in Resource, Mutating(u, s)'
                 PROVE  claim'[s] # NoClaim /\ claim'[s].actor = job'[u].actor
      BY DEF Fenced
    <3>1. Mutating(u, s) /\ ~(u = t /\ s = r)
      BY <2>2
    <3>2. claim[s] # NoClaim /\ claim[s].actor = job[u].actor /\ job'[u].actor = job[u].actor
      BY <1>0, <2>1, <3>1 DEF Fenced, Mutating, Job
    <3>3. s # r \/ inflight[r] # 1
      BY <1>0, <2>1, <3>1, Alone
    <3>4. QED BY <2>4, <3>2, <3>3
  <2>8. ActorsKnown' /\ LeasesIssued'
    BY <1>0, <1>14, <2>1, <2>4 DEF End, ActorsKnown, LeasesIssued, Job
  <2>9. QED BY <2>5, <2>6, <2>7, <2>8 DEF OwnershipInv
<1>15. CASE UNCHANGED cpVars
  <2>1. InFlightCounted' /\ Fenced'
    BY <1>0, <1>15, CallsAlone
  <2>2. TypeOK' /\ ActorsKnown' /\ LeasesIssued'
    BY <1>0, <1>15 DEF TypeOK, ActorsKnown, LeasesIssued
  <2>3. QED BY <2>1, <2>2 DEF OwnershipInv
<1>16. QED
  BY <1>1, <1>2, <1>3, <1>4, <1>5, <1>6, <1>7, <1>8, <1>9, <1>10, <1>11, <1>12, <1>13, <1>14, <1>15
  DEF Next, Ownership

\* The ownership of resources, as TLC checks it on small instances: the state is
\* well formed, mutations are counted, and leases and actors are what they
\* should be.
THEOREM OwnershipInvariant == Spec => []OwnershipInv
<1>1. QED BY OwnershipInit, OwnershipStep, PTL DEF Spec

\* Budgets are never overdrawn and the state is well formed.
THEOREM TypeCorrect == Spec => []TypeOK
<1>1. OwnershipInv => TypeOK
  BY DEF OwnershipInv
<1>2. QED BY OwnershipInvariant, <1>1, PTL

\* While a mutation is being delivered its actor owns the resource.
THEOREM FencedDelivery == Spec => []Fenced
<1>1. OwnershipInv => Fenced
  BY DEF OwnershipInv
<1>2. QED BY OwnershipInvariant, <1>1, PTL

--------------------------------------------------------------------------------
(* What a step may never do.                                                 *)

\* The only steps that start a mutation are those of Begin.
LEMMA OnlyBeginStarts ==
  ASSUME OwnershipInv, [Next]_cpVars, NEW t \in Task, NEW r \in Resource,
         ~Mutating(t, r), Mutating(t, r)'
  PROVE  Begin(t, r)
<1> USE DEF cpVars, actorVars
<1>1. job \in [Task -> Job \cup {Idle}] /\ job' # job
  BY DEF OwnershipInv, TypeOK, Mutating
<1>2. ~Ownership
  BY <1>1 DEF Ownership, CreateActor, CloseActor, DeadlinePasses, MinutePasses, Acquire, Renew,
     Release, Refuse, Expire, Gc
<1>3. ~\E a, b \in Actor, s \in Resource, l \in Lease : Handoff(a, s, l, b)
  BY <1>1 DEF Handoff
<1>4. PICK u \in Task :
        \/ \E a \in Actor : Admit(u, a)
        \/ Finish(u)
        \/ \E s \in Resource : Begin(u, s) \/ BeginRefused(u, s) \/ End(u, s)
  BY <1>1, <1>2, <1>3 DEF Next
<1>5. ~\E a \in Actor : Admit(u, a)
  BY <1>1 DEF Admit, Mutating, Job
<1>6. ~Finish(u)
  BY <1>1 DEF Finish, Mutating
<1>7. ~\E s \in Resource : BeginRefused(u, s)
  BY <1>1 DEF BeginRefused
<1>8. ~\E s \in Resource : End(u, s)
  BY <1>1 DEF End, Mutating, Job
<1>9. PICK s \in Resource : Begin(u, s)
  BY <1>4, <1>5, <1>6, <1>7, <1>8
<1>10. u = t /\ s = r
  BY <1>1, <1>9 DEF Begin, Ready, Mutating, Job
<1>11. QED BY <1>9, <1>10

\* An actor that is closed or past its deadline starts no mutation unless one of
\* the same resource is running.
THEOREM ClosedActorsStop == Spec => ClosedActorStops
<1>1. OwnershipInv /\ [Next]_cpVars =>
        [\A t \in Task, r \in Resource :
           ~Mutating(t, r) /\ Mutating(t, r)' =>
             LET a == job[t].actor IN
               ~overdue[a] /\ (status[a] = "live" \/ inflight[r] > 0)]_cpVars
  <2> SUFFICES ASSUME OwnershipInv, [Next]_cpVars, NEW t \in Task, NEW r \in Resource,
                      ~Mutating(t, r), Mutating(t, r)'
               PROVE  LET a == job[t].actor IN
                        ~overdue[a] /\ (status[a] = "live" \/ inflight[r] > 0)
    OBVIOUS
  <2> DEFINE a == job[t].actor
  <2>1. Begin(t, r)
    BY OnlyBeginStarts
  <2>2. job[t] # Idle /\ a \in Actor /\ ~overdue[a] /\ status[a] # "none" /\ status[a] \in Status
    BY <2>1 DEF Begin, Ready, WithinBudget, OwnershipInv, TypeOK, ActorsKnown, Job
  <2>3. CASE OwnedBy(a, r)
    <3>1. claim[r].actor = a /\ claim[r] # NoClaim /\ ~Lapsed(r)
      BY <2>3, LiveClaimType DEF OwnedBy, OwnershipInv
    <3>2. inflight[r] = 0 => ~Unavailable(a)
      BY <3>1 DEF Lapsed
    <3>3. inflight[r] \in Nat
      BY DEF OwnershipInv, TypeOK
    <3>4. QED BY <2>2, <3>2, <3>3 DEF Unavailable, Status
  <2>4. CASE a = Default
    BY <2>2, <2>4 DEF OwnershipInv, ActorsKnown
  <2>5. QED BY <2>1, <2>3, <2>4 DEF Begin
<1>2. QED BY OwnershipInvariant, <1>1, PTL DEF Spec, ClosedActorStops

\* A new owner always comes with a lease id above all that were issued before.
THEOREM HandoffsSupersede == Spec => Superseded
<1>1. OwnershipInv /\ [Next]_cpVars =>
        [\A r \in Resource :
           /\ claim[r] # NoClaim /\ claim'[r] # NoClaim
           /\ claim[r].actor # claim'[r].actor
           => \A s \in Resource : claim[s] # NoClaim => claim'[r].lease > claim[s].lease]_cpVars
  <2> SUFFICES ASSUME OwnershipInv, Next, NEW r \in Resource,
                      claim[r] # NoClaim, claim'[r] # NoClaim,
                      claim[r].actor # claim'[r].actor,
                      NEW s \in Resource, claim[s] # NoClaim
               PROVE  claim'[r].lease > claim[s].lease
    BY DEF cpVars, actorVars
  <2>0. claim \in [Resource -> Claim \cup {NoClaim}] /\ claim[s].lease <= leases
        /\ claim[s] \in Claim /\ claim[r] \in Claim /\ leases \in Nat
    BY DEF OwnershipInv, TypeOK, LeasesIssued
  <2>1. claim'[r].lease = leases + 1 => claim'[r].lease > claim[s].lease
    BY <2>0 DEF Claim, Lease
  <2>2. ASSUME NEW a \in Actor, NEW q \in Resource, Take(a, q) PROVE claim'[r].lease = leases + 1
    <3>1. CASE LiveClaim(q) = NoClaim
      BY <2>0, <2>2, <3>1 DEF Take, FreshClaim
    <3>2. CASE LiveClaim(q) # NoClaim
      BY <2>0, <2>2, <3>2 DEF Take, Claim
    <3>3. QED BY <3>1, <3>2
  <2>3. ASSUME NEW a \in Actor, CreateActor(a) \/ CloseActor(a) \/ DeadlinePasses(a) \/ MinutePasses(a)
        PROVE  FALSE
    BY <2>0, <2>3 DEF CreateActor, CloseActor, DeadlinePasses, MinutePasses, LiveClaim
  <2>4. ASSUME NEW a \in Actor, NEW q \in Resource, Acquire(a, q) PROVE claim'[r].lease = leases + 1
    BY <2>2, <2>4 DEF Acquire
  <2>5. ASSUME NEW a \in Actor, NEW q \in Resource, NEW l \in Lease, Renew(a, q, l) \/ Release(a, q, l)
        PROVE  FALSE
    BY <2>0, <2>5 DEF Renew, Release, Claim
  <2>6. ASSUME NEW q \in Resource, Refuse(q) \/ Expire(q) PROVE FALSE
    BY <2>0, <2>6 DEF Refuse, Expire, Claim
  <2>7. CASE Gc
    BY <2>0, <2>7 DEF Gc, LiveClaim
  <2>8. ASSUME NEW a \in Actor, NEW b \in Actor, NEW q \in Resource, NEW l \in Lease, Handoff(a, q, l, b)
        PROVE  claim'[r].lease = leases + 1
    BY <2>0, <2>8 DEF Handoff, FreshClaim
  <2>9. ASSUME NEW t \in Task, (\E a \in Actor : Admit(t, a)) \/ Finish(t) PROVE FALSE
    BY <2>9 DEF Admit, Finish
  <2>10. ASSUME NEW t \in Task, NEW q \in Resource, Begin(t, q) PROVE claim'[r].lease = leases + 1
    BY <2>2, <2>10 DEF Begin
  <2>11. ASSUME NEW t \in Task, NEW q \in Resource, BeginRefused(t, q) \/ End(t, q) PROVE FALSE
    BY <2>0, <2>11 DEF BeginRefused, End, LiveClaim
  <2>12. QED
    BY <2>1, <2>3, <2>4, <2>5, <2>6, <2>7, <2>8, <2>9, <2>10, <2>11 DEF Next, Ownership
<1>2. QED BY OwnershipInvariant, <1>1, PTL DEF Spec, Superseded

\* A claim in good standing ends only by what its owner asks for.
THEOREM NobodyTakesOver == Spec => NoTakeover
<1>1. OwnershipInv /\ [Next]_cpVars =>
        [\A r \in Resource :
           LET c == claim[r] IN
           /\ c # NoClaim /\ ~c.expired /\ ~Unavailable(c.actor)
           /\ claim'[r] = NoClaim \/ claim'[r].lease # c.lease \/ claim'[r].actor # c.actor
           => \/ Release(c.actor, r, c.lease)
              \/ \E b \in Actor : Handoff(c.actor, r, c.lease, b)
              \/ CloseActor(c.actor)]_cpVars
  <2> SUFFICES ASSUME OwnershipInv, Next, NEW r \in Resource,
                      claim[r] # NoClaim, ~claim[r].expired, ~Unavailable(claim[r].actor),
                      claim'[r] = NoClaim \/ claim'[r].lease # claim[r].lease
                        \/ claim'[r].actor # claim[r].actor
               PROVE  \/ Release(claim[r].actor, r, claim[r].lease)
                      \/ \E b \in Actor : Handoff(claim[r].actor, r, claim[r].lease, b)
                      \/ CloseActor(claim[r].actor)
    BY DEF cpVars, actorVars
  <2>0. claim \in [Resource -> Claim \cup {NoClaim}] /\ claim[r] \in Claim
    BY DEF OwnershipInv, TypeOK
  <2>1. ~Lapsed(r) /\ LiveClaim(r) = claim[r]
    BY DEF Lapsed, LiveClaim
  <2>1a. ASSUME NEW x \in BOOLEAN, claim' = [claim EXCEPT ![r].expired = x] PROVE FALSE
    <3>1. claim'[r] = [claim[r] EXCEPT !.expired = x]
      BY <2>0, <2>1a
    <3>2. claim'[r] \in Claim /\ claim'[r].actor = claim[r].actor /\ claim'[r].lease = claim[r].lease
      BY <2>0, <3>1 DEF Claim
    <3>3. QED BY <3>2
  <2>2. ASSUME NEW a \in Actor, NEW q \in Resource, Take(a, q) PROVE FALSE
    <3>1. CASE q = r
      <4>1. claim' = [claim EXCEPT ![r].expired = FALSE]
        BY <2>1, <2>2, <3>1 DEF Take
      <4>2. QED BY <2>0, <2>1a, <4>1
    <3>2. CASE q # r
      BY <2>0, <2>2, <3>2 DEF Take
    <3>3. QED BY <3>1, <3>2
  <2>3. ASSUME NEW a \in Actor, CreateActor(a) \/ DeadlinePasses(a) \/ MinutePasses(a) PROVE FALSE
    BY <2>0, <2>1, <2>3 DEF CreateActor, DeadlinePasses, MinutePasses
  <2>4. ASSUME NEW a \in Actor, CloseActor(a) PROVE a = claim[r].actor
    BY <2>0, <2>4 DEF CloseActor
  <2>5. ASSUME NEW a \in Actor, NEW q \in Resource, Acquire(a, q) PROVE FALSE
    BY <2>2, <2>5 DEF Acquire
  <2>6. ASSUME NEW a \in Actor, NEW q \in Resource, NEW l \in Lease, Renew(a, q, l) PROVE FALSE
    BY <2>0, <2>6 DEF Renew, Claim
  <2>7. ASSUME NEW a \in Actor, NEW q \in Resource, NEW l \in Lease, Release(a, q, l)
        PROVE  a = claim[r].actor /\ q = r /\ l = claim[r].lease
    BY <2>0, <2>1, <2>7 DEF Release, Authorizes, OwnedBy
  <2>8. ASSUME NEW q \in Resource, Refuse(q) \/ Expire(q) PROVE FALSE
    <3>1. CASE Refuse(q)
      BY <2>0, <2>1, <3>1 DEF Refuse
    <3>2. CASE Expire(q)
      <4>1. CASE q = r
        BY <2>1a, <3>2, <4>1 DEF Expire
      <4>2. CASE q # r
        BY <2>0, <3>2, <4>2 DEF Expire
      <4>3. QED BY <4>1, <4>2
    <3>3. QED BY <2>8, <3>1, <3>2
  <2>9. CASE Gc
    BY <2>0, <2>1, <2>9 DEF Gc
  <2>10. ASSUME NEW a \in Actor, NEW b \in Actor, NEW q \in Resource, NEW l \in Lease,
                Handoff(a, q, l, b)
         PROVE  a = claim[r].actor /\ q = r /\ l = claim[r].lease
    BY <2>0, <2>1, <2>10 DEF Handoff, Authorizes, OwnedBy
  <2>11. ASSUME NEW t \in Task, (\E a \in Actor : Admit(t, a)) \/ Finish(t) PROVE FALSE
    BY <2>11 DEF Admit, Finish
  <2>12. ASSUME NEW t \in Task, NEW q \in Resource, Begin(t, q) PROVE FALSE
    BY <2>0, <2>2, <2>12 DEF Begin
  <2>13. ASSUME NEW t \in Task, NEW q \in Resource, BeginRefused(t, q) PROVE FALSE
    BY <2>0, <2>1, <2>13 DEF BeginRefused
  <2>14. ASSUME NEW t \in Task, NEW q \in Resource, End(t, q) PROVE FALSE
    BY <2>0, <2>14 DEF End
  <2>15. QED
    BY <2>3, <2>4, <2>5, <2>6, <2>7, <2>8, <2>9, <2>10, <2>11, <2>12, <2>13, <2>14
    DEF Next, Ownership
<1>2. QED BY OwnershipInvariant, <1>1, PTL DEF Spec, NoTakeover

USE AdmissionAssumption

--------------------------------------------------------------------------------
(* Every step of an admission is a step of the control plane, or none.       *)

LEMMA AdmissionSteps == [AdmissionNext]_vars => [Next]_cpVars
<1> SUFFICES ASSUME [AdmissionNext]_vars PROVE [Next]_cpVars
  OBVIOUS
<1>1. CASE Ownership
  BY <1>1 DEF Next
<1>2. ASSUME NEW a \in Actor, NEW b \in Actor, NEW r \in Resource, NEW l \in Lease, HandOn(a, r, l, b)
      PROVE  Next
  BY <1>2 DEF HandOn, Next
<1>3. ASSUME NEW a \in Actor, NEW r \in Resource, Look(a, r) PROVE UNCHANGED cpVars
  BY <1>3 DEF Look
<1>4. ASSUME NEW t \in Task, NEW a \in Actor, NEW e \in Epoch, Open(t, a, e) PROVE Next
  BY <1>4 DEF Open, Next
<1>5. ASSUME NEW t \in Task, TakeLane(t) \/ Reject(t) \/ Advance(t) \/ Overdraw(t)
      PROVE  UNCHANGED cpVars
  BY <1>5 DEF TakeLane, Reject, Advance, Overdraw
<1>6. ASSUME NEW t \in Task, Deliver(t) \/ Disown(t) \/ Complete(t) \/ Return(t) PROVE Next
  BY <1>6 DEF Deliver, Disown, Complete, Return, Next
<1>7. CASE UNCHANGED vars
  BY <1>7 DEF vars
<1>8. QED BY <1>1, <1>2, <1>3, <1>4, <1>5, <1>6, <1>7 DEF AdmissionNext

\* What is proved of the control plane alone holds of it here.
THEOREM ImplementsControlPlane == AdmissionSpec => Spec
<1>1. AdmissionInit => Init
  BY DEF AdmissionInit
<1>2. QED BY <1>1, AdmissionSteps, PTL DEF AdmissionSpec, Spec

--------------------------------------------------------------------------------
(* The inductive invariant of admission.                                     *)

\* Where a call is says what it has: an actor, a mutation in flight, the epoch
\* of the resource it holds.
AdmissionInv ==
  /\ WellFormed
  /\ \A t \in Task : job[t] = Idle <=> place[t] = "out"
  /\ \A t \in Task, r \in Resource : Mutating(t, r) => place[t] = "delivering" /\ Goal[t] = r
  /\ \A t \in Task : place[t] \in {"admitted", "delivering"} => base[t] = epoch[Goal[t]]

LEMMA AdmissionStart == AdmissionInit => AdmissionInv
<1> SUFFICES ASSUME AdmissionInit PROVE AdmissionInv
  OBVIOUS
<1>1. WellFormed
  BY DEF AdmissionInit, WellFormed, Epoch, Place
<1>2. QED BY <1>1 DEF AdmissionInit, Init, AdmissionInv, Mutating

\* The parts of the invariant the steps of one call can disturb.
LEMMA AdmissionStep == AdmissionInv /\ OwnershipInv /\ [AdmissionNext]_vars => AdmissionInv'
<1> SUFFICES ASSUME AdmissionInv, OwnershipInv, [AdmissionNext]_vars PROVE AdmissionInv'
  OBVIOUS
<1> USE DEF laneVars, cpVars, actorVars
<1>0. /\ holder \in [Resource -> Task \cup {Nobody}]
      /\ epoch \in [Resource -> Epoch] /\ base \in [Task -> Epoch]
      /\ place \in [Task -> Place]
      /\ saved \in [Actor -> [Resource -> SUBSET Epoch]]
      /\ job \in [Task -> Job \cup {Idle}]
      /\ WellFormed
  BY DEF AdmissionInv, WellFormed, OwnershipInv, TypeOK
<1>1. ASSUME UNCHANGED <<holder, epoch, base, place, job>>,
             saved' \in [Actor -> [Resource -> SUBSET Epoch]]
      PROVE  AdmissionInv'
  BY <1>1 DEF AdmissionInv, WellFormed, Mutating
<1>2. CASE Ownership /\ UNCHANGED <<laneVars, place, saved>>
  <2>1. UNCHANGED job
    BY <1>2 DEF Ownership, CreateActor, CloseActor, DeadlinePasses, MinutePasses, Acquire, Renew,
       Release, Refuse, Expire, Gc
  <2>2. QED BY <1>0, <1>1, <1>2, <2>1
<1>3. ASSUME NEW a \in Actor, NEW b \in Actor, NEW r \in Resource, NEW l \in Lease, HandOn(a, r, l, b)
      PROVE  AdmissionInv'
  <2>1. saved' \in [Actor -> [Resource -> SUBSET Epoch]]
    <3>1. CASE UNCHANGED saved
      BY <1>0, <3>1
    <3>2. ASSUME NEW e \in Epoch, Save(b, r, e) PROVE saved' \in [Actor -> [Resource -> SUBSET Epoch]]
      BY <1>0, <3>2 DEF Save
    <3>3. QED BY <1>3, <3>1, <3>2 DEF HandOn
  <2>2. QED BY <1>1, <1>3, <2>1 DEF HandOn, Handoff
<1>4. ASSUME NEW a \in Actor, NEW r \in Resource, Look(a, r) PROVE AdmissionInv'
  <2>1. saved' \in [Actor -> [Resource -> SUBSET Epoch]]
    BY <1>0, <1>4 DEF Look, Save
  <2>2. QED BY <1>1, <1>4, <2>1 DEF Look
<1>5. ASSUME NEW t \in Task, NEW a \in Actor, NEW e \in Epoch, Open(t, a, e) PROVE AdmissionInv'
  <2>1. job' = [job EXCEPT ![t] = [actor |-> a, on |-> Nothing]] /\ place[t] = "out"
    BY <1>5 DEF Open, Admit, AdmissionInv
  <2>2. WellFormed'
    BY <1>0, <1>5, <2>1 DEF Open, Go, WellFormed, Place
  <2>3. [actor |-> a, on |-> Nothing] # Idle
    BY DEF Job
  <2>4. \A u \in Task, r \in Resource : Mutating(u, r)' => u # t /\ Mutating(u, r)
    BY <1>0, <2>1 DEF Mutating
  <2>5. QED BY <1>0, <1>5, <2>1, <2>2, <2>3, <2>4 DEF Open, Go, AdmissionInv
<1>6. ASSUME NEW t \in Task, TakeLane(t) PROVE AdmissionInv'
  <2>1. WellFormed'
    BY <1>0, <1>6 DEF TakeLane, Go, WellFormed, Place, Lane!Take
  <2>2. QED BY <1>0, <1>6, <2>1 DEF TakeLane, Go, Lane!Take, AdmissionInv, Mutating
<1>7. ASSUME NEW t \in Task, place[t] \in {"leased", "admitted", "delivering"},
             NEW p \in {"leaving", "delivered"}, Lane!Drop({Goal[t]}), Go(t, p), UNCHANGED saved
      PROVE  WellFormed'
  BY <1>0, <1>7 DEF Go, WellFormed, Place, Lane!Drop
<1>8. ASSUME NEW t \in Task, Reject(t) PROVE AdmissionInv'
  <2>1. WellFormed'
    BY <1>7, <1>8 DEF Reject
  <2>2. QED BY <1>0, <1>8, <2>1 DEF Reject, Go, Lane!Drop, AdmissionInv, Mutating
<1>9. ASSUME NEW t \in Task, Advance(t) PROVE AdmissionInv'
  <2>1. /\ holder[Goal[t]] = t /\ base[t] = epoch[Goal[t]] /\ Goal[t] \in Resource
        /\ epoch' = [epoch EXCEPT ![Goal[t]] = @ + 1] /\ base' = [base EXCEPT ![t] = @ + 1]
        /\ UNCHANGED holder
    BY <1>0, <1>9 DEF Advance, Lane!Mutate
  <2>2. epoch[Goal[t]] + 1 \in Epoch
    BY <1>0, <1>9, <2>1 DEF Advance, Epoch
  <2>3. WellFormed'
    BY <1>0, <1>9, <2>1, <2>2 DEF Advance, Go, WellFormed, Place
  <2>4. ASSUME NEW u \in Task, u # t, place[u] \in {"admitted", "delivering"}
        PROVE  Goal[u] # Goal[t]
    BY <1>0, <2>1, <2>4 DEF WellFormed
  <2>5. \A u \in Task : place'[u] \in {"admitted", "delivering"} => base'[u] = epoch'[Goal[u]]
    BY <1>0, <1>9, <2>1, <2>4 DEF Advance, Go, AdmissionInv
  <2>6. QED BY <1>0, <1>9, <2>3, <2>5 DEF Advance, Go, AdmissionInv, Mutating
<1>10. ASSUME NEW t \in Task, Deliver(t) PROVE AdmissionInv'
  <2>1. job' = [job EXCEPT ![t].on = Goal[t]] /\ job[t] \in Job /\ Goal[t] \in Resource
    BY <1>0, <1>10 DEF Deliver, Begin, Ready
  <2>2. WellFormed'
    BY <1>0, <1>10 DEF Deliver, Go, WellFormed, Place
  <2>3. job'[t] # Idle /\ job'[t].on = Goal[t]
    <3>1. job'[t] = [job[t] EXCEPT !.on = Goal[t]]
      BY <1>0, <2>1
    <3>2. [job[t] EXCEPT !.on = Goal[t]] \in Job
      BY <2>1 DEF Job
    <3>3. QED BY <2>1, <3>1, <3>2 DEF Job
  <2>4. QED BY <1>0, <1>10, <2>1, <2>2, <2>3 DEF Deliver, Go, AdmissionInv, Mutating
<1>11. ASSUME NEW t \in Task, Disown(t) PROVE AdmissionInv'
  <2>1. WellFormed'
    BY <1>7, <1>11 DEF Disown
  <2>2. QED BY <1>0, <1>11, <2>1 DEF Disown, BeginRefused, Go, Lane!Drop, AdmissionInv, Mutating
<1>12. ASSUME NEW t \in Task, Overdraw(t) PROVE AdmissionInv'
  <2>1. WellFormed'
    BY <1>7, <1>12 DEF Overdraw
  <2>2. QED BY <1>0, <1>12, <2>1 DEF Overdraw, Go, Lane!Drop, AdmissionInv, Mutating
<1>13. ASSUME NEW t \in Task, Complete(t) PROVE AdmissionInv'
  <2>1. WellFormed'
    BY <1>7, <1>13 DEF Complete
  <2>2. job' = [job EXCEPT ![t].on = Nothing] /\ job[t] \in Job
    BY <1>0, <1>13 DEF Complete, End
  <2>3. job'[t] # Idle /\ job'[t].on = Nothing
    <3>1. job'[t] = [job[t] EXCEPT !.on = Nothing]
      BY <1>0, <2>2
    <3>2. [job[t] EXCEPT !.on = Nothing] \in Job
      BY <2>2 DEF Job
    <3>3. QED BY <2>2, <3>1, <3>2 DEF Job
  <2>4. \A u \in Task, r \in Resource : Mutating(u, r)' => u # t /\ Mutating(u, r)
    BY <1>0, <2>2, <2>3 DEF Mutating
  <2>5. QED BY <1>0, <1>13, <2>1, <2>2, <2>3, <2>4 DEF Complete, Go, Lane!Drop, AdmissionInv
<1>14. ASSUME NEW t \in Task, Return(t) PROVE AdmissionInv'
  <2>1. job' = [job EXCEPT ![t] = Idle] /\ job[t] \in Job
    BY <1>0, <1>14 DEF Return, Finish
  <2>2. base[t] \in Epoch /\ 0 \in Epoch /\ job[t].actor \in Actor
    BY <1>0, <2>1 DEF Epoch, Job
  <2>3. saved' \in [Actor -> [Resource -> SUBSET Epoch]]
    <3>1. CASE UNCHANGED saved
      BY <1>0, <3>1
    <3>2. CASE Save(job[t].actor, Goal[t], base[t])
      BY <1>0, <2>2, <3>2 DEF Save
    <3>3. QED BY <1>14, <3>1, <3>2 DEF Return
  <2>4. WellFormed'
    BY <1>0, <1>14, <2>2, <2>3 DEF Return, Go, WellFormed, Place
  <2>5. QED BY <1>0, <1>14, <2>1, <2>4 DEF Return, Go, AdmissionInv, Mutating
<1>15. CASE UNCHANGED vars
  BY <1>0, <1>1, <1>15 DEF vars
<1>16. QED
  BY <1>2, <1>3, <1>4, <1>5, <1>6, <1>8, <1>9, <1>10, <1>11, <1>12, <1>13, <1>14, <1>15
  DEF AdmissionNext

\* All of it holds in every state an admission reaches.
LEMMA AdmissionInvariant == AdmissionSpec => [](AdmissionInv /\ OwnershipInv)
<1>1. AdmissionSpec => []OwnershipInv
  BY ImplementsControlPlane, OwnershipInvariant, PTL
<1>2. AdmissionInit /\ [][AdmissionNext]_vars /\ []OwnershipInv => []AdmissionInv
  BY AdmissionStart, AdmissionStep, PTL
<1>3. QED BY <1>1, <1>2, PTL DEF AdmissionSpec

\* The leases are exclusive, and a call has one exactly from "leased" on.
THEOREM LeasesHeld == AdmissionSpec => []WellFormed
<1>1. AdmissionInv => WellFormed
  BY DEF AdmissionInv
<1>2. QED BY AdmissionInvariant, <1>1, PTL

\* Whoever delivers holds the lease, has seen every write before its own, and
\* acts for the owner.
THEOREM DeliveriesFenced == AdmissionSpec => []DeliveryFenced
<1>1. AdmissionInv /\ OwnershipInv => DeliveryFenced
  BY DEF AdmissionInv, WellFormed, OwnershipInv, Fenced, DeliveryFenced
<1>2. QED BY AdmissionInvariant, <1>1, PTL

--------------------------------------------------------------------------------
(* Behind the leases nothing hides the end of a claim.                       *)

\* A call that is about to deliver finds no mutation of its resource in flight.
LEMMA NothingInFlight ==
  ASSUME AdmissionInv, OwnershipInv, NEW t \in Task, place[t] = "admitted"
  PROVE  inflight[Goal[t]] = 0
<1> DEFINE S == {u \in Task : Mutating(u, Goal[t])}
<1>1. Goal[t] \in Resource /\ holder[Goal[t]] = t
  BY DEF AdmissionInv, WellFormed
<1>2. ASSUME NEW u \in Task, Mutating(u, Goal[t]) PROVE FALSE
  <2>1. place[u] = "delivering" /\ Goal[u] = Goal[t]
    BY <1>1, <1>2 DEF AdmissionInv
  <2>2. holder[Goal[t]] = u
    BY <1>1, <2>1 DEF AdmissionInv, WellFormed
  <2>3. QED BY <1>1, <2>1, <2>2
<1>3. S = {}
  BY <1>2
<1>4. QED BY <1>1, <1>3, FS_EmptySet DEF OwnershipInv, InFlightCounted

\* Only Deliver makes a call one that delivers.
LEMMA OnlyDeliverStarts ==
  ASSUME AdmissionInv, [AdmissionNext]_vars, NEW t \in Task,
         place[t] # "delivering", place'[t] = "delivering"
  PROVE  Deliver(t)
<1>1. place \in [Task -> Place] /\ place' # place
  BY DEF AdmissionInv, WellFormed
<1>2. PICK u \in Task :
        \/ \E a \in Actor, e \in Epoch : Open(u, a, e)
        \/ TakeLane(u) \/ Reject(u) \/ Advance(u)
        \/ Deliver(u) \/ Disown(u) \/ Overdraw(u)
        \/ Complete(u) \/ Return(u)
  BY <1>1 DEF AdmissionNext, vars, HandOn, Look
<1>3. \A p \in Place : Go(u, p) /\ p # "delivering" => FALSE
  BY <1>1 DEF Go
<1>4. Deliver(u)
  BY <1>2, <1>3 DEF Open, TakeLane, Reject, Advance, Disown, Overdraw, Complete, Return, Place
<1>5. u = t
  BY <1>1, <1>4 DEF Deliver, Go
<1>6. QED BY <1>4, <1>5

\* No actor starts to deliver after it was closed or its time was over.
THEOREM ClosedActorsStartNothing == AdmissionSpec => ClosedStartsNothing
<1>1. AdmissionInv /\ OwnershipInv /\ [AdmissionNext]_vars =>
        [\A t \in Task :
           place[t] # "delivering" /\ place'[t] = "delivering" =>
             status[job[t].actor] = "live" /\ ~overdue[job[t].actor]]_vars
  <2> SUFFICES ASSUME AdmissionInv, OwnershipInv, [AdmissionNext]_vars, NEW t \in Task,
                      place[t] # "delivering", place'[t] = "delivering"
               PROVE  status[job[t].actor] = "live" /\ ~overdue[job[t].actor]
    OBVIOUS
  <2> DEFINE a == job[t].actor
             r == Goal[t]
  <2>1. Deliver(t)
    BY OnlyDeliverStarts
  <2>2. Begin(t, r) /\ r \in Resource /\ inflight[r] = 0
    BY <2>1, NothingInFlight DEF Deliver
  <2>3. job[t] # Idle /\ a \in Actor /\ ~overdue[a] /\ status[a] # "none" /\ status[a] \in Status
    BY <2>2 DEF Begin, Ready, WithinBudget, OwnershipInv, TypeOK, ActorsKnown, Job
  <2>4. CASE OwnedBy(a, r)
    <3>1. claim[r].actor = a /\ claim[r] # NoClaim /\ ~Lapsed(r)
      BY <2>2, <2>4, LiveClaimType DEF OwnedBy, OwnershipInv
    <3>2. ~Unavailable(a)
      BY <2>2, <3>1 DEF Lapsed
    <3>3. QED BY <2>3, <3>2 DEF Unavailable, Status
  <2>5. CASE a = Default
    BY <2>3, <2>5 DEF OwnershipInv, ActorsKnown
  <2>6. QED BY <2>2, <2>4, <2>5 DEF Begin
<1>2. QED BY AdmissionInvariant, <1>1, PTL DEF AdmissionSpec, ClosedStartsNothing

================================================================================
