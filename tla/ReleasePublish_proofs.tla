----------------------- MODULE ReleasePublish_proofs ------------------------
(***************************************************************************)
(* The publisher's safety invariants hold for any number of runs, names,   *)
(* releases and administrator's steps.                                     *)
(*                                                                         *)
(* None of them is inductive: a check a run made is only worth something   *)
(* because of what other actors cannot do afterwards.  Inv adds what each  *)
(* run, each release and each request the server may still carry out have  *)
(* in common; a step then either moves one run and leaves the remote side  *)
(* alone (QuietStep), or makes one of three changes to the releases        *)
(* (Grown, Changed, Deleted).                                              *)
(***************************************************************************)
EXTENDS ReleasePublish, FiniteSetTheorems, TLAPS

Before   == {"idle", "settings", "list", "tag1", "create"}
Verified == {"overflow1", "download1", "tag2", "seal", "patch", "published",
             "assets2", "overflow2", "download2", "tag3"}
Public   == {"assets2", "overflow2", "download2", "tag3"}
Final    == {"overflow2", "download2", "tag3"}
Newer(r) == Cardinality({s \in Existing : s > r})

\* What a run's record says by itself.
RunOK(p) ==
    LET run == pub[p] IN
    /\ run.todo # {}
    /\ run.pc # "done" => run.result = "none"
    /\ run.result = "error" => (run.retained <=> (run.created /\ ~run.published))
    /\ run.pc \in Before => run.mine = 0 /\ ~run.created /\ ~run.published /\ ~run.unnamed
    /\ run.pc \notin Before \cup {"reconcile", "done"} => run.created /\ ~run.unnamed
    /\ run.pc = "reconcile" => run.unnamed /\ run.mine = 0 /\ ~run.created
    /\ run.unnamed => run.pc \in {"reconcile", "done"} /\ ~run.published
    /\ run.pc = "idle" => ~run.sawOther

\* What a run knows of the release it holds, as long as that exists.
HoldOK(p) ==
    LET run  == pub[p]
        held == run.mine \in Existing
        r    == releases[run.mine]
    IN  /\ run.mine < nextId
        /\ held /\ ~run.unnamed => r.by = p
        /\ held /\ run.unnamed => r.of = "this" /\ (r.draft => run.created)
        /\ held /\ run.pc \in Verified /\ ~r.tampered => r.assets = Sealed(p)
        /\ run.pc \in Public \/ run.result = "ok" => ~run.unnamed
        /\ held /\ (run.pc \in Public \/ run.result = "ok") => r.immutable
        /\ held /\ (run.pc \in Final \/ run.result = "ok") => r.assets = Sealed(p)
        /\ held /\ run.result = "ok" => tag.at = "commit"

\* A release, and the run that created it.
ReleaseOK(r) ==
    LET v == releases[r] IN
    /\ v.of = "this" <=> v.by \in Publishers
    /\ v.immutable => ~v.draft
    /\ v.of = "this" /\ v.immutable => tag.locked
    /\ v.of = "this" => \A a \in v.assets : a.from \in {v.by, Admin}
    /\ v.of = "this" /\ ~v.draft /\ ~v.tampered => v.assets = Sealed(v.by)
    /\ v.of = "this" => \/ pub[v.by].unnamed
                        \/ pub[v.by].created /\ pub[v.by].mine = r

\* A request the server may still carry out belongs to a run that is over, or that
\* knows that no answer named its draft; a publication left when all artifacts were seen.
RequestOK(q) ==
    LET run == pub[q.by] IN
    /\ q.id < nextId
    /\ IF q.op = "create" THEN run.unnamed
       ELSE ~run.unnamed /\ run.created /\ run.pc = "done" /\ run.mine = q.id
    /\ q.op = "upload" => q.asset \subseteq Sealed(q.by)
    /\ q.op = "publish" /\ q.id \in Existing /\ ~releases[q.id].tampered =>
          releases[q.id].assets = Sealed(q.by)

\* A run that started beside another release still has one to find, on the page
\* it reads next or on a later one.
RerunOK(p) ==
    LET run == pub[p] IN
    run.sawOther /\ admin = 0 =>
        /\ OfTag # {}
        /\ run.pc \in {"settings", "list", "done"} /\ ~run.created /\ ~run.unnamed
        /\ run.pc = "list" => \E r \in OfTag : Newer(r) >= (run.page - 1) * PageSize

Inv ==
    /\ TypeOK
    /\ \A p \in Publishers : RunOK(p)
    /\ \A p \in Publishers : HoldOK(p)
    /\ \A r \in Existing : ReleaseOK(r)
    /\ \A q \in inflight : RequestOK(q)
    /\ \A p \in Publishers : RerunOK(p)

-----------------------------------------------------------------------------
(* The pages of a listing, newest first.                                   *)

Above(E, x) == Cardinality({s \in E : s > x})

\* The number of newer entries tells the entries of a finite listing apart.
LEMMA AboveIsInjective ==
    ASSUME NEW E, E \subseteq Nat, IsFiniteSet(E), NEW x \in E, NEW y \in E, x < y
    PROVE  Above(E, y) < Above(E, x)
<1> DEFINE higher(z) == {s \in E : s > z}
<1>1. IsFiniteSet(higher(x)) /\ higher(y) \in SUBSET higher(x)
  <2>1. higher(x) \subseteq E
    OBVIOUS
  <2>2. ASSUME NEW s \in higher(y) PROVE s \in higher(x)
    <3>1. s \in E /\ s \in Nat /\ x \in Nat /\ y \in Nat /\ s > y
      OBVIOUS
    <3> QED BY <3>1
  <2> QED BY <2>1, <2>2, FS_Subset
<1>2. y \in higher(x) /\ y \notin higher(y)
  OBVIOUS
<1>3. /\ Cardinality(higher(y)) <= Cardinality(higher(x))
      /\ Cardinality(higher(x)) = Cardinality(higher(y)) => higher(x) = higher(y)
  BY <1>1, FS_Subset
<1>4. Cardinality(higher(x)) \in Nat /\ Cardinality(higher(y)) \in Nat
  BY <1>1, FS_Subset, FS_CardinalityType
<1> HIDE DEF higher
<1>5. Cardinality(higher(y)) < Cardinality(higher(x))
  BY <1>2, <1>3, <1>4
<1> QED BY <1>5 DEF Above, higher

\* It is less than the length of the listing.
LEMMA AboveBound ==
    ASSUME NEW E, E \subseteq Nat, IsFiniteSet(E), NEW x \in E
    PROVE  Above(E, x) \in 0 .. (Cardinality(E) - 1)
<1> DEFINE higher == {s \in E : s > x}
<1>1. IsFiniteSet(higher) /\ higher \in SUBSET E
  BY FS_Subset
<1>2. x \notin higher
  OBVIOUS
<1>3. Cardinality(higher) \in Nat /\ Cardinality(E) \in Nat
  BY <1>1, FS_CardinalityType
<1>4. /\ Cardinality(higher) <= Cardinality(E)
      /\ Cardinality(E) = Cardinality(higher) => E = higher
  BY <1>1, FS_Subset
<1> HIDE DEF higher
<1>5. Cardinality(higher) \in 0 .. (Cardinality(E) - 1)
  BY <1>2, <1>3, <1>4
<1> QED BY <1>5 DEF Above, higher

\* Each place in the listing is taken.
LEMMA EveryPlaceTaken ==
    ASSUME NEW E, E \subseteq Nat, IsFiniteSet(E), NEW j \in 0 .. (Cardinality(E) - 1)
    PROVE  \E x \in E : Above(E, x) = j
<1> DEFINE n == Cardinality(E)
           f == [x \in E |-> Above(E, x)]
<1>1. n \in Nat
  BY FS_CardinalityType
<1>2. f \in [E -> 0 .. (n - 1)]
  BY AboveBound
<1>3. ASSUME NEW x \in E, NEW y \in E, x # y PROVE f[x] # f[y]
  <2>1. Above(E, x) \in Int /\ Above(E, y) \in Int
    <3>1. Above(E, x) \in 0 .. (n - 1) /\ Above(E, y) \in 0 .. (n - 1)
      BY AboveBound
    <3> QED BY <3>1, <1>1
  <2>2. x < y \/ y < x
    BY <1>3
  <2>3. Above(E, y) < Above(E, x) \/ Above(E, x) < Above(E, y)
    BY <2>2, AboveIsInjective
  <2> QED BY <2>1, <2>3
<1>4. f \in Injection(E, 0 .. (n - 1))
  BY <1>2, <1>3 DEF Injection, IsInjective
<1>5. IsFiniteSet(0 .. (n - 1)) /\ Cardinality(0 .. (n - 1)) = n
  BY <1>1, FS_Interval
<1>6. f \in Surjection(E, 0 .. (n - 1))
  BY <1>4, <1>5, FS_Injection
<1>7. \E x \in E : f[x] = j
  BY <1>6 DEF Surjection
<1> QED BY <1>7

\* A page in front of some entry is full: one that is not is the last.
LEMMA EarlierPageIsFull ==
    ASSUME NEW E, E \subseteq Nat, IsFiniteSet(E), NEW lo \in Nat, NEW size \in Nat,
           NEW r \in E, Above(E, r) >= lo + size
    PROVE  Cardinality({x \in E : Above(E, x) >= lo /\ Above(E, x) < lo + size}) = size
<1> DEFINE page == {x \in E : Above(E, x) >= lo /\ Above(E, x) < lo + size}
           places == lo .. (lo + size - 1)
           g == [x \in page |-> Above(E, x)]
<1>1. Cardinality(E) \in Nat
  BY FS_CardinalityType
<1>2. \A x \in E : Above(E, x) \in 0 .. (Cardinality(E) - 1)
  BY AboveBound
<1>3. g \in [page -> places]
  <2>1. ASSUME NEW x \in page PROVE Above(E, x) \in places
    BY <1>1, <1>2
  <2> QED BY <2>1
<1>4. ASSUME NEW x \in page, NEW y \in page, x # y PROVE g[x] # g[y]
  <2>1. Above(E, x) \in Int /\ Above(E, y) \in Int
    BY <1>2, <1>1
  <2>2. x < y \/ y < x
    BY <1>4
  <2>3. Above(E, y) < Above(E, x) \/ Above(E, x) < Above(E, y)
    BY <2>2, AboveIsInjective
  <2> QED BY <2>1, <2>3
<1>5. ASSUME NEW j \in places PROVE \E x \in page : g[x] = j
  <2>1. j \in 0 .. (Cardinality(E) - 1)
    BY <1>1, <1>2
  <2>2. PICK x \in E : Above(E, x) = j
    BY <2>1, EveryPlaceTaken
  <2> QED BY <2>2
<1>6. g \in Injection(page, places)
  BY <1>3, <1>4 DEF Injection, IsInjective
<1>7. g \in Surjection(page, places)
  BY <1>3, <1>5 DEF Surjection
<1>8. IsFiniteSet(places) /\ Cardinality(places) = size
  BY FS_Interval
<1> HIDE DEF page, places, g
<1>9. Cardinality(page) = size
  BY <1>6, <1>7, <1>8, FS_Injection
<1> QED BY <1>9 DEF page

\* The greatest of finitely many ids is one of them.
LEMMA MaxIsOne ==
    ASSUME NEW S, S \subseteq Nat, IsFiniteSet(S), S # {}
    PROVE  Max(S) \in S
<1>1. Cardinality(S) \in Nat /\ Cardinality(S) # 0
  BY FS_CardinalityType, FS_EmptySet
<1>2. PICK x \in S : Above(S, x) = 0
  <2>1. 0 \in 0 .. (Cardinality(S) - 1)
    BY <1>1
  <2> QED BY <2>1, EveryPlaceTaken
<1>3. {s \in S : s > x} = {}
  <2>1. IsFiniteSet({s \in S : s > x})
    BY FS_Subset
  <2> QED BY <1>2, <2>1, FS_EmptySet DEF Above
<1>4. \A y \in S : x >= y
  BY <1>3
<1> QED BY <1>4 DEF Max

-----------------------------------------------------------------------------
(* What one step may do to the remote side, seen from those who take no    *)
(* part in it.                                                             *)

RunSet == [pc : Running \cup {"idle", "done"}, page : 1 .. MaxPages,
           mine : Ids \cup {0}, todo : SUBSET Names, created : BOOLEAN,
           published : BOOLEAN, retained : BOOLEAN,
           result : {"none", "ok", "error", "crashed"},
           sawOther : BOOLEAN, unnamed : BOOLEAN]

\* No id comes back, an immutable release keeps its content, publication and
\* tampering cannot be undone, a complete release changes only by tampering, and
\* a locked tag stays.
RemoteStep ==
    /\ \A r \in Existing' : r \in Existing \/ r >= nextId
    /\ nextId <= nextId'
    /\ \A r \in Existing \cap Existing' :
          LET old == releases[r]
              new == releases'[r]
          IN  /\ new.of = old.of /\ new.by = old.by
              /\ old.immutable => new.immutable /\ new.assets = old.assets
              /\ new.draft => old.draft
              /\ old.tampered => new.tampered
              /\ old.of = "this" /\ ~new.tampered /\ old.assets = Sealed(old.by) =>
                    new.assets = old.assets
    /\ tag.locked => tag'.at = tag.at
    /\ admin' = 0 => admin = 0 /\ Existing \subseteq Existing'

\* The types of the values the proofs look at.
LEMMA Types ==
    ASSUME TypeOK
    PROVE  /\ nextId \in 1 .. (MaxReleases + 1) /\ nextId \in Nat
           /\ \A r \in Existing : r \in Nat /\ r < nextId /\ r \in Ids /\ releases[r] \in Release
           /\ IsFiniteSet(Existing)
           /\ \A p \in Publishers : pub[p] \in RunSet /\ pub[p].mine \in Nat
           /\ \A q \in inflight : q \in Request /\ q.id \in Nat /\ q.by \in Publishers
           /\ pub \in [Publishers -> RunSet]
<1> USE PublishAssumption
<1>1. nextId \in 1 .. (MaxReleases + 1) /\ nextId \in Nat
  BY DEF TypeOK
<1>2. \A r \in Existing : r \in Nat /\ r < nextId /\ r \in Ids /\ releases[r] \in Release
  BY <1>1 DEF TypeOK, Ids
<1>3. IsFiniteSet(Existing)
  <2>1. IsFiniteSet(1 .. (nextId - 1)) /\ Existing \subseteq 1 .. (nextId - 1)
    BY <1>1, FS_Interval DEF TypeOK
  <2> QED BY <2>1, FS_Subset
<1>4. pub \in [Publishers -> RunSet]
  BY DEF TypeOK, RunSet
<1>5. \A p \in Publishers : pub[p] \in RunSet /\ pub[p].mine \in Nat
  BY <1>4 DEF RunSet, Ids
<1>6. \A q \in inflight : q \in Request /\ q.id \in Nat /\ q.by \in Publishers
  BY DEF TypeOK, Request, Ids
<1> QED BY <1>1, <1>2, <1>3, <1>4, <1>5, <1>6

\* A run that takes no part in the step keeps what it knows of its release.
LEMMA HoldKept ==
    ASSUME Inv, TypeOK', RemoteStep, NEW p \in Publishers, pub'[p] = pub[p]
    PROVE  HoldOK(p)'
<1> DEFINE run == pub[p]
           held == run.mine \in Existing
<1>1. HoldOK(p) /\ RunOK(p) /\ run \in RunSet /\ run.mine \in Nat
  BY Types DEF Inv
<1>2. nextId \in Nat /\ nextId' \in Nat /\ nextId <= nextId'
  BY Types, PublishAssumption DEF Inv, TypeOK, RemoteStep
<1>3. run.mine \in Existing' => held
  BY <1>1, <1>2 DEF RemoteStep, HoldOK
<1>4. held => releases[run.mine].by = p \/ run.unnamed
  BY <1>1 DEF HoldOK
<1>5. held => ReleaseOK(run.mine)
  BY DEF Inv
<1>6. held => (releases[run.mine].of = "this" <=> releases[run.mine].by \in Publishers)
  BY <1>5 DEF ReleaseOK
<1>7. run.mine < nextId'
  BY <1>1, <1>2 DEF HoldOK
<1>8. CASE run.mine \notin Existing'
  BY <1>1, <1>7, <1>8 DEF HoldOK
<1>9. CASE run.mine \in Existing'
  <2> DEFINE old == releases[run.mine]
             new == releases'[run.mine]
  <2>1. held /\ run.mine \in Existing \cap Existing'
    BY <1>3, <1>9
  <2>2. /\ new.of = old.of /\ new.by = old.by
        /\ old.immutable => new.immutable /\ new.assets = old.assets
        /\ new.draft => old.draft
        /\ old.tampered => new.tampered
        /\ old.of = "this" /\ ~new.tampered /\ old.assets = Sealed(old.by) =>
              new.assets = old.assets
    BY <2>1 DEF RemoteStep
  <2>3. old.of = "this" /\ (~run.unnamed => old.by = p)
    BY <2>1, <1>4, <1>6, <1>1 DEF HoldOK
  <2>4. run.pc \in Verified => ~run.unnamed
    BY <1>1 DEF RunOK, Verified
  <2>5. run.pc \in Verified /\ ~new.tampered => new.assets = Sealed(p)
    BY <2>1, <2>2, <2>3, <2>4, <1>1 DEF HoldOK
  <2>6. (run.pc \in Public \/ run.result = "ok") => old.immutable /\ new.immutable
    BY <2>1, <2>2, <1>1 DEF HoldOK
  <2>7. (run.pc \in Final \/ run.result = "ok") => new.assets = Sealed(p)
    BY <2>1, <2>2, <2>6, <1>1 DEF HoldOK, Public, Final
  <2>8. run.result = "ok" => tag'.at = "commit"
    <3>1. run.result = "ok" => tag.locked /\ tag.at = "commit"
      BY <2>1, <2>3, <2>6, <1>5, <1>1 DEF HoldOK, ReleaseOK
    <3> QED BY <3>1 DEF RemoteStep
  <2>9. run.unnamed => new.of = "this" /\ (new.draft => run.created)
    BY <2>1, <2>2, <1>1 DEF HoldOK
  <2>10. ~run.unnamed => new.by = p
    BY <2>2, <2>3
  <2>11. (run.pc \in Public \/ run.result = "ok") => ~run.unnamed
    BY <1>1 DEF HoldOK
  <2> HIDE DEF old, new
  <2> QED BY <1>7, <2>5, <2>6, <2>7, <2>8, <2>9, <2>10, <2>11 DEF HoldOK, new
<1> QED BY <1>8, <1>9

\* Nothing newer disappears as long as nothing is deleted.
LEMMA RerunKept ==
    ASSUME Inv, TypeOK', RemoteStep, NEW p \in Publishers, pub'[p] = pub[p]
    PROVE  RerunOK(p)'
<1> SUFFICES ASSUME pub[p].sawOther, admin' = 0
             PROVE  /\ OfTag' # {}
                    /\ pub[p].pc \in {"settings", "list", "done"}
                    /\ ~pub[p].created /\ ~pub[p].unnamed
                    /\ pub[p].pc = "list" =>
                          \E r \in OfTag' : Newer(r)' >= (pub[p].page - 1) * PageSize
  BY DEF RerunOK
<1>1. admin = 0 /\ Existing \subseteq Existing'
  BY DEF RemoteStep
<1>2. RerunOK(p)
  BY DEF Inv
<1>3. OfTag \subseteq OfTag'
  BY <1>1 DEF RemoteStep, OfTag
<1>4. ASSUME NEW r \in Existing PROVE Newer(r)' >= Newer(r) /\ Newer(r) \in Nat /\ Newer(r)' \in Nat
  <2> DEFINE old == {s \in Existing : s > r}
             new == {s \in Existing' : s > r}
  <2>1. IsFiniteSet(Existing')
    <3>1. nextId' \in 1 .. (MaxReleases + 1) /\ (Existing \subseteq 1 .. (nextId - 1))'
      BY DEF TypeOK
    <3>2. nextId' \in Int
      BY <3>1, PublishAssumption
    <3>3. IsFiniteSet(1 .. (nextId' - 1))
      BY <3>2, FS_Interval
    <3>4. Existing' \in SUBSET (1 .. (nextId' - 1))
      BY <3>1
    <3> QED BY <3>3, <3>4, FS_Subset
  <2>2. IsFiniteSet(new) /\ old \subseteq new
    BY <2>1, <1>1, FS_Subset
  <2>3. IsFiniteSet(old) /\ Cardinality(old) <= Cardinality(new)
    BY <2>2, FS_Subset
  <2>4. Cardinality(old) \in Nat /\ Cardinality(new) \in Nat
    BY <2>2, <2>3, FS_CardinalityType
  <2> QED BY <2>3, <2>4 DEF Newer
<1>5. pub[p].pc = "list" => \E r \in OfTag : Newer(r) >= (pub[p].page - 1) * PageSize
  BY <1>1, <1>2 DEF RerunOK
<1>6. ASSUME NEW r \in OfTag, Newer(r) >= (pub[p].page - 1) * PageSize
      PROVE  r \in OfTag' /\ Newer(r)' >= (pub[p].page - 1) * PageSize
  <2>1. (pub[p].page - 1) * PageSize \in Int
    BY PublishAssumption, Types DEF Inv, RunSet
  <2>2. Newer(r)' >= Newer(r) /\ Newer(r) \in Nat /\ Newer(r)' \in Nat
    BY <1>4 DEF OfTag
  <2> QED BY <1>3, <1>6, <2>1, <2>2
<1>7. pub[p].pc = "list" => \E r \in OfTag' : Newer(r)' >= (pub[p].page - 1) * PageSize
  BY <1>5, <1>6
<1> QED BY <1>1, <1>2, <1>3, <1>7 DEF RerunOK

\* A request stays what it was unless the run it belongs to moves on.
LEMMA RequestKept ==
    ASSUME Inv, TypeOK', RemoteStep, NEW q \in inflight,
           pub[q.by].unnamed => pub'[q.by].unnamed,
           pub[q.by].pc = "done" => pub'[q.by] = pub[q.by]
    PROVE  RequestOK(q)'
<1>1. RequestOK(q) /\ q \in Request /\ q.id \in Nat /\ q.by \in Publishers
  BY Types DEF Inv
<1>2. nextId \in Nat /\ nextId' \in Nat /\ nextId <= nextId'
  BY Types, PublishAssumption DEF Inv, TypeOK, RemoteStep
<1>3. q.id < nextId'
  BY <1>1, <1>2 DEF RequestOK
<1>4. ASSUME q.op = "publish", q.id \in Existing', ~releases'[q.id].tampered
      PROVE  releases'[q.id].assets = Sealed(q.by)
  <2>1. q.id \in Existing \cap Existing'
    BY <1>1, <1>2, <1>4 DEF RequestOK, RemoteStep
  <2>2. ~releases[q.id].tampered
    BY <1>4, <2>1 DEF RemoteStep
  <2>3. releases[q.id].assets = Sealed(q.by)
    BY <1>1, <1>4, <2>1, <2>2 DEF RequestOK
  <2>4. releases[q.id].by = q.by
    BY <1>1, <1>4, <2>1 DEF RequestOK, Inv, HoldOK
  <2>5. releases[q.id].of = "this"
    BY <1>1, <2>1, <2>4 DEF Inv, ReleaseOK
  <2> QED BY <1>4, <2>1, <2>3, <2>4, <2>5 DEF RemoteStep
<1>5. q.op = "upload" => q.asset \subseteq Sealed(q.by)
  BY <1>1 DEF RequestOK
<1>6. IF q.op = "create" THEN pub'[q.by].unnamed
      ELSE ~pub'[q.by].unnamed /\ pub'[q.by].created /\ pub'[q.by].pc = "done"
             /\ pub'[q.by].mine = q.id
  BY <1>1 DEF RequestOK
<1> QED BY <1>3, <1>4, <1>5, <1>6 DEF RequestOK

\* A release that the step leaves alone, and whose run keeps what it knows of it.
LEMMA ReleaseKept ==
    ASSUME Inv, NEW r \in Existing, releases'[r] = releases[r],
           tag.locked => tag'.locked,
           LET p == releases[r].by IN
              p \in Publishers =>
                 /\ pub[p].unnamed => pub'[p].unnamed
                 /\ pub[p].created /\ pub[p].mine = r /\ ~pub'[p].unnamed =>
                       pub'[p].created /\ pub'[p].mine = r
    PROVE  ReleaseOK(r)'
<1>1. ReleaseOK(r)
  BY DEF Inv
<1> QED BY <1>1 DEF ReleaseOK

-----------------------------------------------------------------------------
(* Steps of one run that leave the remote side alone.                      *)

LEMMA TypeKept ==
    ASSUME TypeOK, UNCHANGED remote, pub' \in [Publishers -> RunSet],
           inflight' \subseteq Request, admin' \in 0 .. MaxAdmin
    PROVE  TypeOK'
BY DEF TypeOK, RunSet, remote, Existing

\* The steps of one run move that run only; what the others and the remote side
\* say holds as before.
LEMMA QuietStep ==
    ASSUME Inv, NEW p \in Publishers, pub' \in [Publishers -> RunSet],
           \A o \in Publishers \ {p} : pub'[o] = pub[o],
           UNCHANGED <<remote, admin>>,
           inflight' \subseteq Request,
           \A q \in inflight' \ inflight : RequestOK(q)',
           pub[p].pc # "done", pub[p].unnamed => pub'[p].unnamed,
           ~pub'[p].unnamed => pub'[p].mine = pub[p].mine /\ pub'[p].created = pub[p].created,
           RunOK(p)', HoldOK(p)', RerunOK(p)'
    PROVE  Inv'
<1>1. TypeOK'
  BY TypeKept DEF Inv, TypeOK
<1>2. /\ Existing' = Existing /\ releases' = releases /\ nextId' = nextId
      /\ tag' = tag /\ admin' = admin
  BY DEF remote, Existing
<1>3. RemoteStep
  <2>1. nextId \in Nat
    BY Types DEF Inv
  <2> QED BY <1>2, <2>1 DEF RemoteStep
<1>4. \A o \in Publishers : RunOK(o)'
  BY DEF Inv, RunOK
<1>5. \A o \in Publishers : HoldOK(o)'
  BY <1>1, <1>3, HoldKept
<1>6. \A o \in Publishers : RerunOK(o)'
  BY <1>1, <1>3, RerunKept
<1>7. ASSUME NEW q \in inflight' PROVE RequestOK(q)'
  <2>1. CASE q \notin inflight
    BY <2>1
  <2>2. CASE q \in inflight
    <3>1. q.by \in Publishers
      BY <2>2, Types DEF Inv
    <3>2. pub[q.by].unnamed => pub'[q.by].unnamed
      BY <3>1
    <3>3. pub[q.by].pc = "done" => pub'[q.by] = pub[q.by]
      BY <3>1
    <3> QED BY <2>2, <3>2, <3>3, <1>1, <1>3, RequestKept
  <2> QED BY <2>1, <2>2
<1>8. ASSUME NEW r \in Existing PROVE ReleaseOK(r)'
  <2> DEFINE by == releases[r].by
  <2>1. by \in Publishers =>
           /\ pub[by].unnamed => pub'[by].unnamed
           /\ pub[by].created /\ pub[by].mine = r /\ ~pub'[by].unnamed =>
                 pub'[by].created /\ pub'[by].mine = r
    <3>1. CASE by = p
      BY <3>1
    <3>2. CASE by # p
      BY <3>2
    <3> QED BY <3>1, <3>2
  <2> QED BY <2>1, <1>2, ReleaseKept
<1> QED BY <1>1, <1>2, <1>4, <1>5, <1>6, <1>7, <1>8 DEF Inv

\* What the assignments of a run's step leave in its record.
LEMMA GotoFields ==
    ASSUME Inv, NEW p \in Publishers, NEW next \in Running, Goto(p, next)
    PROVE  /\ pub' \in [Publishers -> RunSet]
           /\ \A o \in Publishers \ {p} : pub'[o] = pub[o]
           /\ pub'[p].pc = next /\ pub'[p].todo = Names /\ pub'[p].page = 1
           /\ pub'[p].mine = pub[p].mine /\ pub'[p].created = pub[p].created
           /\ pub'[p].published = pub[p].published /\ pub'[p].retained = pub[p].retained
           /\ pub'[p].result = pub[p].result /\ pub'[p].sawOther = pub[p].sawOther
           /\ pub'[p].unnamed = pub[p].unnamed
<1> DEFINE run == [pub[p] EXCEPT !.pc = next, !.todo = Names, !.page = 1]
<1>1. pub \in [Publishers -> RunSet] /\ pub[p] \in RunSet
  BY Types DEF Inv
<1>2. pub' = [pub EXCEPT ![p] = run]
  BY <1>1 DEF Goto
<1>3. run \in RunSet
  <2>1. 1 \in 1 .. MaxPages /\ Names \in SUBSET Names
    BY PublishAssumption
  <2>2. next \in Running \cup {"idle", "done"}
    OBVIOUS
  <2> QED BY <1>1, <2>1, <2>2 DEF RunSet
<1>4. pub'[p] = run
  BY <1>1, <1>2
<1>5. pub' \in [Publishers -> RunSet] /\ \A o \in Publishers \ {p} : pub'[o] = pub[o]
  BY <1>1, <1>2, <1>3
<1> QED BY <1>1, <1>4, <1>5 DEF RunSet

LEMMA EndFields ==
    ASSUME Inv, NEW p \in Publishers, NEW run \in RunSet,
           NEW result \in {"ok", "error", "crashed"}, End(p, run, result)
    PROVE  /\ pub' \in [Publishers -> RunSet]
           /\ \A o \in Publishers \ {p} : pub'[o] = pub[o]
           /\ pub'[p].pc = "done" /\ pub'[p].todo = run.todo /\ pub'[p].page = run.page
           /\ pub'[p].mine = run.mine /\ pub'[p].created = run.created
           /\ pub'[p].published = run.published
           /\ pub'[p].retained = (result = "error" /\ run.created /\ ~run.published)
           /\ pub'[p].result = result /\ pub'[p].sawOther = run.sawOther
           /\ pub'[p].unnamed = run.unnamed
<1> DEFINE last == [run EXCEPT !.pc = "done", !.result = result,
                       !.retained = result = "error" /\ run.created /\ ~run.published]
<1>1. pub \in [Publishers -> RunSet]
  BY Types DEF Inv
<1>2. pub' = [pub EXCEPT ![p] = last]
  BY <1>1 DEF End
<1>3. last \in RunSet
  BY DEF RunSet
<1>4. pub'[p] = last
  BY <1>1, <1>2
<1>5. pub' \in [Publishers -> RunSet] /\ \A o \in Publishers \ {p} : pub'[o] = pub[o]
  BY <1>1, <1>2, <1>3
<1> QED BY <1>4, <1>5 DEF RunSet

\* A run goes on to its next request: what it then relies on it has just seen.
LEMMA Advance ==
    ASSUME Inv, NEW p \in Publishers, NEW next \in Running \ {"reconcile"},
           Goto(p, next), UNCHANGED <<remote, inflight, admin>>,
           pub[p].pc \in Running \ {"reconcile"},
           next \in Before <=> pub[p].pc \in Before,
           next \in Verified \ Public /\ pub[p].pc \notin Verified /\ pub[p].mine \in Existing =>
              releases[pub[p].mine].assets = Sealed(p),
           next \in Public /\ pub[p].mine \in Existing =>
              pub[p].pc \in Verified /\ releases[pub[p].mine].immutable,
           next \in Final /\ pub[p].mine \in Existing =>
              releases[pub[p].mine].assets = Sealed(p),
           pub[p].pc \in {"settings", "list"} => RerunOK(p)'
    PROVE  Inv'
<1> DEFINE run == pub[p]
           new == pub'[p]
<1>1. RunOK(p) /\ HoldOK(p) /\ RerunOK(p) /\ TypeOK /\ run \in RunSet
  BY Types DEF Inv
<1>2. /\ pub' \in [Publishers -> RunSet]
      /\ \A o \in Publishers \ {p} : pub'[o] = pub[o]
      /\ new.pc = next /\ new.todo = Names /\ new.page = 1
      /\ new.mine = run.mine /\ new.created = run.created
      /\ new.published = run.published /\ new.retained = run.retained
      /\ new.result = run.result /\ new.sawOther = run.sawOther
      /\ new.unnamed = run.unnamed
  BY GotoFields
<1>3. run.pc # "done" /\ next # "done" /\ next # "idle"
  BY DEF Running, Requests
<1>4. ~run.unnamed
  BY <1>1, <1>3 DEF RunOK
<1>5. run.result = "none"
  BY <1>1, <1>3 DEF RunOK
<1>6. RunOK(p)'
  <2>1. next \notin Before => run.created
    BY <1>1, <1>3 DEF RunOK
  <2>2. next \in Before => run.mine = 0 /\ ~run.created /\ ~run.published
    BY <1>1 DEF RunOK
  <2>3. Names # {}
    BY PublishAssumption
  <2> HIDE DEF run, new
  <2> QED BY <2>1, <2>2, <2>3, <1>2, <1>3, <1>4, <1>5 DEF RunOK, run, new
<1>7. HoldOK(p)'
  <2>1. Existing' = Existing /\ releases' = releases /\ nextId' = nextId /\ tag' = tag
    BY DEF remote, Existing
  <2>2. Verified = (Verified \ Public) \cup Public
    BY DEF Verified, Public
  <2>3. /\ run.mine < nextId
        /\ run.mine \in Existing => releases[run.mine].by = p
        /\ run.mine \in Existing /\ run.pc \in Verified /\ ~releases[run.mine].tampered =>
              releases[run.mine].assets = Sealed(p)
    BY <1>1, <1>4 DEF HoldOK
  <2>4. run.mine \in Existing /\ next \in Verified /\ ~releases[run.mine].tampered =>
              releases[run.mine].assets = Sealed(p)
    BY <2>2, <2>3
  <2>5. new.mine < nextId
    BY <2>3, <1>2
  <2>6. new.mine \in Existing /\ ~new.unnamed => releases[new.mine].by = p
    BY <2>3, <1>2
  <2>7. /\ new.mine \in Existing /\ new.pc \in Verified /\ ~releases[new.mine].tampered =>
              releases[new.mine].assets = Sealed(p)
        /\ new.mine \in Existing /\ new.pc \in Public => releases[new.mine].immutable
        /\ new.mine \in Existing /\ new.pc \in Final => releases[new.mine].assets = Sealed(p)
    BY <2>4, <1>2
  <2>8. new.result # "ok" /\ ~new.unnamed
    BY <1>2, <1>4, <1>5
  <2> HIDE DEF run, new
  <2> QED BY <2>1, <2>5, <2>6, <2>7, <2>8 DEF HoldOK, new
<1>8. RerunOK(p)'
  <2>1. CASE run.pc \in {"settings", "list"}
    BY <2>1
  <2>2. CASE run.pc \notin {"settings", "list"}
    <3>1. ~(new.sawOther /\ admin' = 0)
      BY <2>2, <1>1, <1>2, <1>3 DEF RerunOK
    <3> QED BY <3>1 DEF RerunOK
  <2> QED BY <2>1, <2>2
<1> QED BY <1>2, <1>3, <1>4, <1>6, <1>7, <1>8, QuietStep, Types DEF Inv, TypeOK

\* A run ends with an error.
LEMMA EndsWithError ==
    ASSUME Inv, NEW p \in Publishers, NEW run \in RunSet, End(p, run, "error"),
           UNCHANGED <<remote, admin>>, pub[p].pc \in Running,
           inflight' \subseteq Request,
           \A q \in inflight' \ inflight : RequestOK(q)',
           run.todo = pub[p].todo, run.sawOther = pub[p].sawOther, run.unnamed = pub[p].unnamed,
           ~run.unnamed => run.mine = pub[p].mine /\ run.created = pub[p].created,
           run.unnamed => ~run.published,
           run.mine < nextId,
           run.unnamed /\ run.mine \in Existing =>
              releases[run.mine].of = "this" /\ (releases[run.mine].draft => run.created)
    PROVE  Inv'
<1> DEFINE new == pub'[p]
<1>1. RunOK(p) /\ HoldOK(p) /\ RerunOK(p) /\ TypeOK /\ pub[p] \in RunSet
  BY Types DEF Inv
<1>2. /\ pub' \in [Publishers -> RunSet]
      /\ \A o \in Publishers \ {p} : pub'[o] = pub[o]
      /\ new.pc = "done" /\ new.todo = run.todo /\ new.page = run.page
      /\ new.mine = run.mine /\ new.created = run.created
      /\ new.published = run.published
      /\ new.retained = (run.created /\ ~run.published)
      /\ new.result = "error" /\ new.sawOther = run.sawOther
      /\ new.unnamed = run.unnamed
  BY EndFields
<1>3. pub[p].pc # "done" /\ pub[p].pc # "idle"
  BY DEF Running, Requests
<1>4. RunOK(p)'
  <2>1. run.todo # {}
    BY <1>1 DEF RunOK
  <2>2. "done" \notin Before
    BY DEF Before
  <2> HIDE DEF new
  <2> QED BY <1>2, <2>1, <2>2 DEF RunOK, new
<1>5. HoldOK(p)'
  <2>1. Existing' = Existing /\ releases' = releases /\ nextId' = nextId
    BY DEF remote, Existing
  <2>2. run.mine \in Existing /\ ~run.unnamed => releases[run.mine].by = p
    BY <1>1 DEF HoldOK
  <2>3. "done" \notin Verified /\ "done" \notin Public /\ "done" \notin Final
    BY DEF Verified, Public, Final
  <2> HIDE DEF new
  <2> QED BY <1>2, <2>1, <2>2, <2>3 DEF HoldOK, new
<1>6. RerunOK(p)'
  <2>1. OfTag' = OfTag /\ admin' = admin
    BY DEF remote, OfTag, Existing
  <2>2. new.sawOther /\ admin' = 0 => OfTag' # {} /\ ~new.created /\ ~new.unnamed
    BY <2>1, <1>1, <1>2 DEF RerunOK
  <2> HIDE DEF new
  <2> QED BY <1>2, <2>2 DEF RerunOK, new
<1> QED BY <1>2, <1>3, <1>4, <1>5, <1>6, QuietStep

LEMMA Fails ==
    ASSUME Inv, NEW p \in Publishers, Fail(p), pub[p].pc \in Running,
           UNCHANGED <<remote, inflight, admin>>
    PROVE  Inv'
<1>1. RunOK(p) /\ HoldOK(p) /\ pub[p] \in RunSet
  BY Types DEF Inv
<1>2. End(p, pub[p], "error") /\ inflight' \subseteq Request
  BY DEF Fail, Inv, TypeOK
<1>3. pub[p].unnamed => ~pub[p].published
  BY <1>1 DEF RunOK
<1> QED BY <1>1, <1>2, <1>3, EndsWithError DEF HoldOK

-----------------------------------------------------------------------------
(* The requests that only look.                                            *)

LEMMA StartKeeps ==
    ASSUME Inv, NEW p \in Publishers, Start(p)
    PROVE  Inv'
<1> DEFINE new == pub'[p]
<1>1. RunOK(p) /\ HoldOK(p) /\ pub \in [Publishers -> RunSet] /\ pub[p] \in RunSet
  BY Types DEF Inv
<1>2. pub[p].pc = "idle" /\ UNCHANGED <<remote, inflight, admin>>
  BY DEF Start
<1>3. pub' = [pub EXCEPT ![p] = [pub[p] EXCEPT !.pc = "settings", !.sawOther = OfTag # {}]]
  BY <1>1 DEF Start
<1>4. new = [pub[p] EXCEPT !.pc = "settings", !.sawOther = OfTag # {}]
  BY <1>1, <1>3
<1>5. "settings" \in Running
  BY DEF Running, Requests
<1>6. new \in RunSet
  BY <1>1, <1>4, <1>5, ZenonT(30) DEF RunSet
<1>7. pub' \in [Publishers -> RunSet] /\ \A o \in Publishers \ {p} : pub'[o] = pub[o]
  BY <1>1, <1>3, <1>4, <1>6
<1>8. /\ new.pc = "settings" /\ new.todo = pub[p].todo /\ new.mine = pub[p].mine
      /\ new.created = pub[p].created /\ new.published = pub[p].published
      /\ new.result = pub[p].result /\ new.unnamed = pub[p].unnamed
      /\ new.sawOther = (OfTag # {})
  BY <1>1, <1>4 DEF RunSet
<1>9. /\ pub[p].mine = 0 /\ ~pub[p].created /\ ~pub[p].published /\ ~pub[p].unnamed
      /\ pub[p].result = "none" /\ pub[p].todo # {}
  BY <1>1, <1>2 DEF RunOK, Before
<1>10. RunOK(p)'
  <2> HIDE DEF new
  <2> QED BY <1>8, <1>9 DEF RunOK, new, Before
<1>11. /\ Existing' = Existing /\ releases' = releases /\ nextId' = nextId /\ tag' = tag
       /\ OfTag' = OfTag
  BY <1>2 DEF remote, Existing, OfTag
<1>12. HoldOK(p)'
  <2>1. 0 \notin Existing /\ 0 < nextId
    BY Types, PublishAssumption DEF Inv, Ids
  <2>2. "settings" \notin Public
    BY DEF Public
  <2> HIDE DEF new
  <2> QED BY <2>1, <2>2, <1>8, <1>9, <1>11 DEF HoldOK, new
<1>13. RerunOK(p)'
  <2> HIDE DEF new
  <2> QED BY <1>8, <1>9, <1>11 DEF RerunOK, new
<1>14. UNCHANGED <<remote, admin>> /\ inflight' \subseteq Request /\ inflight' = inflight
  BY <1>2 DEF Inv, TypeOK
<1> QED BY <1>2, <1>7, <1>8, <1>9, <1>10, <1>12, <1>13, <1>14, QuietStep

LEMMA RequireImmutableReleasesKeeps ==
    ASSUME Inv, NEW p \in Publishers, RequireImmutableReleases(p)
    PROVE  Inv'
<1>1. /\ pub[p].pc = "settings" /\ UNCHANGED <<remote, inflight, admin>>
      /\ Goto(p, "list") \/ Fail(p)
  BY DEF RequireImmutableReleases
<1>2. CASE Fail(p)
  BY <1>1, <1>2, Fails DEF Running, Requests
<1>3. CASE Goto(p, "list")
  <2>1. RerunOK(p)'
    <3>1. RerunOK(p) /\ "list" \in Running
      BY DEF Inv, Running, Requests
    <3>2. /\ pub'[p].pc = "list" /\ pub'[p].page = 1 /\ pub'[p].sawOther = pub[p].sawOther
          /\ pub'[p].created = pub[p].created /\ pub'[p].unnamed = pub[p].unnamed
      BY <1>3, <3>1, GotoFields
    <3>3. OfTag' = OfTag /\ admin' = admin /\ Existing' = Existing
      BY <1>1 DEF remote, OfTag, Existing
    <3>4. ASSUME NEW r \in OfTag' PROVE Newer(r)' >= (pub'[p].page - 1) * PageSize
      <4>1. IsFiniteSet(Existing')
        BY <3>3, Types DEF Inv
      <4>2. Newer(r)' \in Nat
        BY <4>1, FS_Subset, FS_CardinalityType DEF Newer
      <4>3. (pub'[p].page - 1) * PageSize = 0
        BY <3>2, PublishAssumption
      <4> QED BY <4>2, <4>3
    <3> QED BY <3>1, <3>2, <3>3, <3>4 DEF RerunOK
  <2> QED BY <1>1, <1>3, <2>1, Advance DEF Running, Requests, Before, Verified, Public, Final
<1> QED BY <1>1, <1>2, <1>3

LEMMA RequireRemoteTagCommitKeeps ==
    ASSUME Inv, NEW p \in Publishers, RequireRemoteTagCommit(p)
    PROVE  Inv'
<1>1. /\ pub[p].pc \in {"tag1", "tag2", "tag3"} /\ UNCHANGED <<remote, inflight, admin>>
      /\ \/ Fail(p)
         \/ pub[p].pc = "tag1" /\ Goto(p, "create")
         \/ pub[p].pc = "tag2" /\ Goto(p, "seal")
         \/ pub[p].pc = "tag3" /\ tag.at = "commit" /\ End(p, pub[p], "ok")
  BY DEF RequireRemoteTagCommit
<1>2. pub[p].pc \in Running
  BY <1>1 DEF Running, Requests
<1>3. CASE Fail(p)
  BY <1>1, <1>2, <1>3, Fails
<1>4. CASE pub[p].pc = "tag1" /\ Goto(p, "create")
  BY <1>1, <1>2, <1>4, Advance DEF Running, Requests, Before, Verified, Public, Final
<1>5. CASE pub[p].pc = "tag2" /\ Goto(p, "seal")
  BY <1>1, <1>2, <1>5, Advance DEF Running, Requests, Before, Verified, Public, Final
<1>6. CASE pub[p].pc = "tag3" /\ tag.at = "commit" /\ End(p, pub[p], "ok")
  <2> DEFINE new == pub'[p]
  <2>1. RunOK(p) /\ HoldOK(p) /\ RerunOK(p) /\ pub[p] \in RunSet
    BY Types DEF Inv
  <2>2. /\ pub' \in [Publishers -> RunSet]
        /\ \A o \in Publishers \ {p} : pub'[o] = pub[o]
        /\ new.pc = "done" /\ new.todo = pub[p].todo /\ new.mine = pub[p].mine
        /\ new.created = pub[p].created /\ new.published = pub[p].published
        /\ new.result = "ok" /\ new.sawOther = pub[p].sawOther /\ new.unnamed = pub[p].unnamed
    BY <1>6, <2>1, EndFields
  <2>3. ~pub[p].unnamed /\ pub[p].todo # {}
    BY <2>1, <1>6 DEF RunOK
  <2>4. RunOK(p)'
    <3> HIDE DEF new
    <3> QED BY <2>2, <2>3 DEF RunOK, new, Before
  <2>5. HoldOK(p)'
    <3>1. Existing' = Existing /\ releases' = releases /\ nextId' = nextId /\ tag' = tag
      BY <1>1 DEF remote, Existing
    <3>2. pub[p].pc \in Public /\ pub[p].pc \in Final
      BY <1>6 DEF Public, Final
    <3>3. /\ pub[p].mine < nextId
          /\ pub[p].mine \in Existing =>
               /\ releases[pub[p].mine].by = p /\ releases[pub[p].mine].immutable
               /\ releases[pub[p].mine].assets = Sealed(p)
      BY <3>2, <2>1, <2>3 DEF HoldOK
    <3> HIDE DEF new
    <3> QED BY <1>6, <2>2, <2>3, <3>1, <3>3 DEF HoldOK, new
  <2>6. RerunOK(p)'
    <3>1. ~(pub[p].sawOther /\ admin = 0)
      BY <2>1, <1>6 DEF RerunOK
    <3> QED BY <1>1, <2>2, <3>1 DEF RerunOK
  <2>7. UNCHANGED <<remote, admin>> /\ inflight' \subseteq Request /\ inflight' = inflight
    BY <1>1 DEF Inv, TypeOK
  <2> QED BY <1>6, <2>2, <2>3, <2>4, <2>5, <2>6, <2>7, QuietStep
<1> QED BY <1>1, <1>3, <1>4, <1>5, <1>6

LEMMA RequireDraftKeeps ==
    ASSUME Inv, NEW p \in Publishers, RequireDraft(p)
    PROVE  Inv'
<1>1. /\ pub[p].pc = "draft" /\ UNCHANGED <<remote, inflight, admin>>
      /\ Fail(p) \/ Goto(p, "assets1")
  BY DEF RequireDraft
<1>2. pub[p].pc \in Running
  BY <1>1 DEF Running, Requests
<1>3. CASE Fail(p)
  BY <1>1, <1>2, <1>3, Fails
<1>4. CASE Goto(p, "assets1")
  BY <1>1, <1>2, <1>4, Advance DEF Running, Requests, Before, Verified, Public, Final
<1> QED BY <1>1, <1>3, <1>4

LEMMA RequireAssetListKeeps ==
    ASSUME Inv, NEW p \in Publishers, RequireAssetList(p)
    PROVE  Inv'
<1>1. /\ pub[p].pc \in {"assets1", "assets2"} /\ UNCHANGED <<remote, inflight, admin>>
      /\ \/ Fail(p)
         \/ /\ pub[p].mine \in Existing /\ releases[pub[p].mine].assets = Sealed(p)
            /\ \/ pub[p].pc = "assets1" /\ Goto(p, "overflow1")
               \/ pub[p].pc = "assets2" /\ Goto(p, "overflow2")
  BY DEF RequireAssetList
<1>2. pub[p].pc \in Running
  BY <1>1 DEF Running, Requests
<1>3. HoldOK(p)
  BY DEF Inv
<1>4. CASE Fail(p)
  BY <1>1, <1>2, <1>4, Fails
<1>5. CASE /\ pub[p].mine \in Existing /\ releases[pub[p].mine].assets = Sealed(p)
           /\ pub[p].pc = "assets1" /\ Goto(p, "overflow1")
  BY <1>1, <1>2, <1>5, Advance DEF Running, Requests, Before, Verified, Public, Final
<1>6. CASE /\ pub[p].mine \in Existing /\ releases[pub[p].mine].assets = Sealed(p)
           /\ pub[p].pc = "assets2" /\ Goto(p, "overflow2")
  <2>1. releases[pub[p].mine].immutable
    BY <1>3, <1>6 DEF HoldOK, Public
  <2> QED BY <1>1, <1>2, <1>6, <2>1, Advance DEF Running, Requests, Before, Verified, Public, Final
<1> QED BY <1>1, <1>4, <1>5, <1>6

LEMMA RequireNoOverflowKeeps ==
    ASSUME Inv, NEW p \in Publishers, RequireNoOverflow(p)
    PROVE  Inv'
<1>1. /\ pub[p].pc \in {"overflow1", "overflow2"} /\ UNCHANGED <<remote, inflight, admin>>
      /\ \/ Fail(p)
         \/ pub[p].pc = "overflow1" /\ Goto(p, "download1")
         \/ pub[p].pc = "overflow2" /\ Goto(p, "download2")
  BY DEF RequireNoOverflow
<1>2. pub[p].pc \in Running
  BY <1>1 DEF Running, Requests
<1>3. HoldOK(p)
  BY DEF Inv
<1>4. CASE Fail(p)
  BY <1>1, <1>2, <1>4, Fails
<1>5. CASE pub[p].pc = "overflow1" /\ Goto(p, "download1")
  <2>1. pub[p].mine \in Existing /\ ~releases[pub[p].mine].tampered =>
           releases[pub[p].mine].assets = Sealed(p)
    BY <1>3, <1>5 DEF HoldOK, Verified
  <2> QED BY <1>1, <1>2, <1>5, <2>1, Advance DEF Running, Requests, Before, Verified, Public, Final
<1>6. CASE pub[p].pc = "overflow2" /\ Goto(p, "download2")
  <2>1. pub[p].mine \in Existing =>
           releases[pub[p].mine].immutable /\ releases[pub[p].mine].assets = Sealed(p)
    BY <1>3, <1>6 DEF HoldOK, Public, Final
  <2> QED BY <1>1, <1>2, <1>6, <2>1, Advance DEF Running, Requests, Before, Verified, Public, Final
<1> QED BY <1>1, <1>4, <1>5, <1>6

LEMMA VerifySealedKeeps ==
    ASSUME Inv, NEW p \in Publishers, VerifySealed(p)
    PROVE  Inv'
<1>1. /\ pub[p].pc = "seal" /\ UNCHANGED <<remote, inflight, admin>>
      /\ Fail(p) \/ Goto(p, "patch")
  BY DEF VerifySealed
<1>2. pub[p].pc \in Running
  BY <1>1 DEF Running, Requests
<1>3. CASE Fail(p)
  BY <1>1, <1>2, <1>3, Fails
<1>4. CASE Goto(p, "patch")
  BY <1>1, <1>2, <1>4, Advance DEF Running, Requests, Before, Verified, Public, Final
<1> QED BY <1>1, <1>3, <1>4

LEMMA RequirePublishedKeeps ==
    ASSUME Inv, NEW p \in Publishers, RequirePublished(p)
    PROVE  Inv'
<1>1. /\ pub[p].pc = "published" /\ UNCHANGED <<remote, inflight, admin>>
      /\ \/ Fail(p)
         \/ /\ pub[p].mine \in Existing /\ releases[pub[p].mine].immutable
            /\ Goto(p, "assets2")
  BY DEF RequirePublished
<1>2. pub[p].pc \in Running
  BY <1>1 DEF Running, Requests
<1>3. CASE Fail(p)
  BY <1>1, <1>2, <1>3, Fails
<1>4. CASE /\ pub[p].mine \in Existing /\ releases[pub[p].mine].immutable
           /\ Goto(p, "assets2")
  BY <1>1, <1>2, <1>4, Advance DEF Running, Requests, Before, Verified, Public, Final
<1> QED BY <1>1, <1>3, <1>4

\* One artifact is done, others are left.
LEMMA TodoFields ==
    ASSUME Inv, NEW p \in Publishers, NEW a,
           a = CHOOSE b \in pub[p].todo : TRUE, pub[p].todo # {a},
           pub' = [pub EXCEPT ![p].todo = @ \ {a}]
    PROVE  /\ pub' \in [Publishers -> RunSet]
           /\ \A o \in Publishers \ {p} : pub'[o] = pub[o]
           /\ pub'[p].todo # {}
           /\ pub'[p].pc = pub[p].pc /\ pub'[p].page = pub[p].page
           /\ pub'[p].mine = pub[p].mine /\ pub'[p].created = pub[p].created
           /\ pub'[p].published = pub[p].published /\ pub'[p].retained = pub[p].retained
           /\ pub'[p].result = pub[p].result /\ pub'[p].sawOther = pub[p].sawOther
           /\ pub'[p].unnamed = pub[p].unnamed
<1> DEFINE todo == pub[p].todo \ {a}
           run == [pub[p] EXCEPT !.todo = todo]
<1>1. pub \in [Publishers -> RunSet] /\ pub[p] \in RunSet /\ pub[p].todo # {}
  BY Types DEF Inv, RunOK
<1>2. pub' = [pub EXCEPT ![p] = run]
  BY <1>1
<1>3. a \in pub[p].todo
  BY <1>1
<1>4. todo # {}
  BY <1>3
<1>5. run \in RunSet
  BY <1>1 DEF RunSet
<1>6. pub'[p] = run
  BY <1>1, <1>2
<1>7. pub' \in [Publishers -> RunSet] /\ \A o \in Publishers \ {p} : pub'[o] = pub[o]
  BY <1>1, <1>2, <1>5
<1> HIDE DEF todo
<1> QED BY <1>1, <1>4, <1>6, <1>7 DEF RunSet

LEMMA RequireDownloadedAssetKeeps ==
    ASSUME Inv, NEW p \in Publishers, RequireDownloadedAsset(p)
    PROVE  Inv'
<1> DEFINE a == CHOOSE b \in pub[p].todo : TRUE
<1>1. /\ pub[p].pc \in {"download1", "download2"} /\ UNCHANGED <<remote, inflight, admin>>
      /\ \/ Fail(p)
         \/ pub[p].pc = "download1" /\ Goto(p, "tag2")
         \/ pub[p].pc = "download2" /\ Goto(p, "tag3")
         \/ pub[p].todo # {a} /\ pub' = [pub EXCEPT ![p].todo = @ \ {a}]
  BY DEF RequireDownloadedAsset
<1>2. pub[p].pc \in Running
  BY <1>1 DEF Running, Requests
<1>3. RunOK(p) /\ HoldOK(p) /\ RerunOK(p) /\ pub[p] \in RunSet
  BY Types DEF Inv
<1>4. CASE Fail(p)
  BY <1>1, <1>2, <1>4, Fails
<1>5. CASE pub[p].pc = "download1" /\ Goto(p, "tag2")
  BY <1>1, <1>2, <1>5, Advance DEF Running, Requests, Before, Verified, Public, Final
<1>6. CASE pub[p].pc = "download2" /\ Goto(p, "tag3")
  <2>1. pub[p].mine \in Existing => releases[pub[p].mine].immutable
                                      /\ releases[pub[p].mine].assets = Sealed(p)
    BY <1>3, <1>6 DEF HoldOK, Public, Final
  <2> QED BY <1>1, <1>2, <1>6, <2>1, Advance DEF Running, Requests, Before, Verified, Public, Final
<1>7. CASE pub[p].todo # {a} /\ pub' = [pub EXCEPT ![p].todo = @ \ {a}]
  <2> DEFINE new == pub'[p]
  <2> HIDE DEF a
  <2>1. /\ pub' \in [Publishers -> RunSet]
        /\ \A o \in Publishers \ {p} : pub'[o] = pub[o]
        /\ new.todo # {} /\ new.pc = pub[p].pc
        /\ new.mine = pub[p].mine /\ new.created = pub[p].created
        /\ new.published = pub[p].published /\ new.retained = pub[p].retained
        /\ new.result = pub[p].result /\ new.sawOther = pub[p].sawOther
        /\ new.unnamed = pub[p].unnamed
    BY <1>7, TodoFields DEF a
  <2>2. RunOK(p)'
    <3> HIDE DEF new
    <3> QED BY <1>3, <2>1 DEF RunOK, new
  <2>3. HoldOK(p)'
    <3>1. Existing' = Existing /\ releases' = releases /\ nextId' = nextId /\ tag' = tag
      BY <1>1 DEF remote, Existing
    <3> HIDE DEF new
    <3> QED BY <1>3, <2>1, <3>1 DEF HoldOK, new
  <2>4. RerunOK(p)'
    <3>1. ~(pub[p].sawOther /\ admin = 0)
      BY <1>1, <1>3 DEF RerunOK
    <3> QED BY <1>1, <2>1, <3>1 DEF RerunOK
  <2>5. UNCHANGED <<remote, admin>> /\ inflight' \subseteq Request /\ inflight' = inflight
    BY <1>1 DEF Inv, TypeOK
  <2>6. pub[p].pc # "done"
    BY <1>1
  <2>7. pub[p].unnamed => pub'[p].unnamed
    BY <2>1
  <2> QED BY <2>1, <2>2, <2>3, <2>4, <2>5, <2>6, <2>7, QuietStep
<1> QED BY <1>1, <1>4, <1>5, <1>6, <1>7

\* A page that does not show the release is not the last: the release is on a
\* later one.
LEMMA FoundLater ==
    ASSUME Inv, NEW p \in Publishers, pub[p].pc = "list", pub[p].sawOther, admin = 0,
           Page(pub[p].page) \cap OfTag = {}
    PROVE  /\ ~LastPage(Page(pub[p].page))
           /\ \E r \in OfTag : Newer(r) >= pub[p].page * PageSize
<1> DEFINE lo == (pub[p].page - 1) * PageSize
<1>1. pub[p].page \in Nat \ {0} /\ PageSize \in Nat \ {0} /\ MaxPages \in Nat
  BY Types, PublishAssumption DEF Inv, RunSet
<1>2. lo \in Nat /\ pub[p].page * PageSize = lo + PageSize
  <2>1. PICK k \in Nat : pub[p].page = k + 1
    BY <1>1
  <2>2. k * PageSize \in Nat /\ (k + 1) * PageSize = k * PageSize + PageSize
    BY <1>1
  <2> QED BY <2>1, <2>2
<1> HIDE DEF lo
<1>3. IsFiniteSet(Existing) /\ Existing \subseteq Nat
  BY Types DEF Inv
<1>4. Page(pub[p].page) =
        {r \in Existing : Above(Existing, r) >= lo /\ Above(Existing, r) < lo + PageSize}
  BY <1>2 DEF Page, Above, lo
<1>5. PICK r \in OfTag : Newer(r) >= lo
  BY DEF Inv, RerunOK, lo
<1>6. r \in Existing /\ Newer(r) = Above(Existing, r) /\ Newer(r) \in Int
  <2>1. r \in Existing /\ Newer(r) = Above(Existing, r)
    BY DEF OfTag, Newer, Above
  <2>2. Above(Existing, r) \in 0 .. (Cardinality(Existing) - 1)
    BY <1>3, <2>1, AboveBound
  <2> QED BY <2>1, <2>2
<1>7. Newer(r) >= lo + PageSize
  <2>1. r \notin Page(pub[p].page)
    BY <1>5
  <2> QED BY <1>1, <1>2, <1>4, <1>5, <1>6, <2>1
<1>8. Cardinality(Page(pub[p].page)) = PageSize
  <2>1. lo \in Nat /\ PageSize \in Nat /\ Above(Existing, r) >= lo + PageSize
    BY <1>1, <1>2, <1>6, <1>7
  <2> QED BY <1>3, <1>4, <1>6, <2>1, EarlierPageIsFull, ZenonT(30)
<1> QED BY <1>1, <1>2, <1>7, <1>8 DEF LastPage

LEMMA FindReleaseByTagKeeps ==
    ASSUME Inv, NEW p \in Publishers, FindReleaseByTag(p)
    PROVE  Inv'
<1> DEFINE page == Page(pub[p].page)
           found == page \cap OfTag
<1>1. /\ pub[p].pc \in {"list", "reconcile"} /\ UNCHANGED <<remote, inflight, admin>>
      /\ \/ Fail(p)
         \/ found # {} /\ pub[p].pc = "reconcile" /\ Reconciled(p, Max(found))
         \/ found = {} /\ LastPage(page) /\ pub[p].pc = "list" /\ Goto(p, "tag1")
         \/ found = {} /\ pub[p].page # MaxPages /\ pub' = [pub EXCEPT ![p].page = @ + 1]
  BY DEF FindReleaseByTag, NextPage
<1>2. pub[p].pc \in Running
  BY <1>1 DEF Running, Requests
<1>3. RunOK(p) /\ HoldOK(p) /\ RerunOK(p) /\ pub \in [Publishers -> RunSet] /\ pub[p] \in RunSet
  BY Types DEF Inv
<1>4. CASE Fail(p)
  BY <1>1, <1>2, <1>4, Fails
<1>5. CASE found # {} /\ pub[p].pc = "reconcile" /\ Reconciled(p, Max(found))
  <2> DEFINE r == Max(found)
             run == [pub[p] EXCEPT !.mine = r, !.created = ~Published(r)]
  <2>1. IsFiniteSet(found) /\ found \subseteq Nat
    <3>1. found \subseteq Existing /\ IsFiniteSet(Existing) /\ Existing \subseteq Nat
      BY Types DEF Inv, OfTag
    <3> HIDE DEF found
    <3> QED BY <3>1, FS_Subset
  <2>2. r \in found
    <3> HIDE DEF found
    <3> QED BY <1>5, <2>1, MaxIsOne
  <2>3. r \in Existing /\ releases[r].of = "this"
    BY <2>2 DEF OfTag
  <2>4. r \in Ids /\ r < nextId
    BY <2>3, Types DEF Inv
  <2> HIDE DEF r
  <2>5. Published(r) = ~releases[r].draft /\ releases[r].draft \in BOOLEAN
    BY <2>3, Types DEF Inv, Published, Release
  <2>6. run \in RunSet
    BY <1>3, <2>4, <2>5 DEF RunSet
  <2>7. /\ run.todo = pub[p].todo /\ run.sawOther = pub[p].sawOther /\ run.unnamed = pub[p].unnamed
        /\ run.mine = r /\ run.created = ~Published(r) /\ run.published = pub[p].published
    BY <1>3 DEF RunSet
  <2>8. pub[p].unnamed /\ ~pub[p].published
    BY <1>3, <1>5 DEF RunOK
  <2>9. End(p, run, "error") /\ inflight' \subseteq Request /\ inflight' = inflight
        /\ UNCHANGED <<remote, admin>>
    BY <1>1, <1>5 DEF Reconciled, Inv, TypeOK, r
  <2> HIDE DEF run
  <2>10. run.unnamed /\ run.mine \in Existing =>
            releases[run.mine].of = "this" /\ (releases[run.mine].draft => run.created)
    BY <2>3, <2>5, <2>7
  <2>11. run.mine < nextId
    BY <2>4, <2>7
  <2> QED BY <1>2, <2>6, <2>7, <2>8, <2>9, <2>10, <2>11, EndsWithError
<1>6. CASE found = {} /\ LastPage(page) /\ pub[p].pc = "list" /\ Goto(p, "tag1")
  <2>1. ~(pub[p].sawOther /\ admin = 0)
    BY <1>6, FoundLater
  <2>2. pub'[p].sawOther = pub[p].sawOther
    BY <1>6, GotoFields DEF Running, Requests
  <2>3. RerunOK(p)'
    BY <1>1, <2>1, <2>2 DEF RerunOK
  <2> QED BY <1>1, <1>2, <1>6, <2>3, Advance DEF Running, Requests, Before, Verified, Public, Final
<1>7. CASE found = {} /\ pub[p].page # MaxPages /\ pub' = [pub EXCEPT ![p].page = @ + 1]
  <2> DEFINE new == pub'[p]
  <2>1. pub[p].page + 1 \in 1 .. MaxPages
    <3>1. pub[p].page \in 1 .. MaxPages /\ MaxPages \in Nat
      BY <1>3, PublishAssumption DEF RunSet
    <3>2. pub[p].page # MaxPages
      BY <1>7
    <3> QED BY <3>1, <3>2
  <2>2. pub' = [pub EXCEPT ![p] = [pub[p] EXCEPT !.page = pub[p].page + 1]]
    BY <1>3, <1>7
  <2>3. new = [pub[p] EXCEPT !.page = pub[p].page + 1]
    BY <1>3, <2>2
  <2>4. new \in RunSet
    BY <1>3, <2>1, <2>3 DEF RunSet
  <2>5. pub' \in [Publishers -> RunSet] /\ \A o \in Publishers \ {p} : pub'[o] = pub[o]
    BY <1>3, <2>2, <2>3, <2>4
  <2>6. /\ new.todo = pub[p].todo /\ new.pc = pub[p].pc /\ new.page = pub[p].page + 1
        /\ new.mine = pub[p].mine /\ new.created = pub[p].created
        /\ new.published = pub[p].published /\ new.retained = pub[p].retained
        /\ new.result = pub[p].result /\ new.sawOther = pub[p].sawOther
        /\ new.unnamed = pub[p].unnamed
    BY <1>3, <2>3 DEF RunSet
  <2>7. RunOK(p)'
    <3> HIDE DEF new
    <3> QED BY <1>3, <2>6 DEF RunOK, new
  <2>8. HoldOK(p)'
    <3>1. Existing' = Existing /\ releases' = releases /\ nextId' = nextId /\ tag' = tag
      BY <1>1 DEF remote, Existing
    <3> HIDE DEF new
    <3> QED BY <1>3, <2>6, <3>1 DEF HoldOK, new
  <2>9. RerunOK(p)'
    <3>1. OfTag' = OfTag /\ admin' = admin /\ Existing' = Existing
      BY <1>1 DEF remote, OfTag, Existing
    <3>2. (new.page - 1) * PageSize = pub[p].page * PageSize
      BY <1>3, <2>6 DEF RunSet
    <3>3. ASSUME pub[p].pc = "list", pub[p].sawOther, admin = 0
          PROVE  \E r \in OfTag' : Newer(r)' >= (new.page - 1) * PageSize
      <4>1. PICK r \in OfTag : Newer(r) >= pub[p].page * PageSize
        BY <1>7, <3>3, FoundLater
      <4>2. Newer(r)' = Newer(r)
        BY <3>1 DEF Newer
      <4> QED BY <3>1, <3>2, <4>1, <4>2
    <3> HIDE DEF new
    <3> QED BY <1>3, <2>6, <3>1, <3>3 DEF RerunOK, new
  <2>10. UNCHANGED <<remote, admin>> /\ inflight' \subseteq Request /\ inflight' = inflight
    BY <1>1 DEF Inv, TypeOK
  <2>11. pub[p].pc # "done" /\ (pub[p].unnamed => pub'[p].unnamed)
    BY <1>1, <2>6
  <2> QED BY <2>5, <2>6, <2>7, <2>8, <2>9, <2>10, <2>11, QuietStep
<1> QED BY <1>1, <1>4, <1>5, <1>6, <1>7

-----------------------------------------------------------------------------
(* A request that fails for its publisher, and a run that just stops.      *)

\* A request that is given up on and belongs to a run that ends with it.
LEMMA LeftBehind ==
    ASSUME Inv, NEW p \in Publishers, NEW run \in RunSet, End(p, run, "error"),
           UNCHANGED <<remote, admin>>, pub[p].pc \in {"upload", "patch"},
           run.todo = pub[p].todo, run.sawOther = pub[p].sawOther, run.unnamed = pub[p].unnamed,
           run.mine = pub[p].mine, run.created = pub[p].created,
           NEW op \in {"upload", "publish"}, NEW asset \in SUBSET Asset,
           asset \subseteq Sealed(p), op = "publish" => pub[p].pc = "patch",
           inflight' = inflight \cup {[op |-> op, by |-> p, id |-> pub[p].mine, asset |-> asset]}
    PROVE  Inv'
<1> DEFINE q == [op |-> op, by |-> p, id |-> pub[p].mine, asset |-> asset]
<1>1. RunOK(p) /\ HoldOK(p) /\ pub[p] \in RunSet
  BY Types DEF Inv
<1>2. /\ pub'[p].pc = "done" /\ pub'[p].mine = pub[p].mine
      /\ pub'[p].created = pub[p].created /\ pub'[p].unnamed = pub[p].unnamed
  BY EndFields
<1>3. pub[p].created /\ ~pub[p].unnamed
  BY <1>1 DEF RunOK, Before
<1>4. q \in Request
  BY <1>1 DEF Request, RunSet
<1>5. inflight' \subseteq Request
  BY <1>4 DEF Inv, TypeOK
<1>6. Existing' = Existing /\ releases' = releases /\ nextId' = nextId
  BY DEF remote, Existing
<1>7. q.op = op /\ q.by = p /\ q.id = pub[p].mine /\ q.asset = asset
  OBVIOUS
<1> HIDE DEF q
<1>8. ASSUME NEW x, x = q PROVE RequestOK(x)'
  <2>1. /\ pub[p].mine < nextId
        /\ op = "publish" /\ pub[p].mine \in Existing /\ ~releases[pub[p].mine].tampered =>
              releases[pub[p].mine].assets = Sealed(p)
    BY <1>1 DEF HoldOK, Verified
  <2>2. x.op = op /\ x.by = p /\ x.id = pub[p].mine /\ x.asset = asset
    BY <1>7, <1>8
  <2> QED BY <1>2, <1>3, <1>6, <2>1, <2>2 DEF RequestOK
<1>9. inflight' = inflight \cup {q}
  BY DEF q
<1>10. pub[p].pc \in Running /\ pub[p].mine < nextId
  BY <1>1 DEF Running, Requests, HoldOK
<1>11. \A x \in inflight' \ inflight : RequestOK(x)'
  BY <1>8, <1>9
<1> QED BY <1>3, <1>5, <1>10, <1>11, EndsWithError

LEMMA RequestFailsKeeps ==
    ASSUME Inv, NEW p \in Publishers, RequestFails(p)
    PROVE  Inv'
<1> DEFINE sent(op, asset) == [op |-> op, by |-> p, id |-> pub[p].mine, asset |-> asset]
           next == [name |-> CHOOSE b \in pub[p].todo : TRUE, from |-> p]
<1>1. /\ pub[p].pc \in Requests /\ UNCHANGED <<remote, admin>>
      /\ \/ /\ pub[p].pc = "create"
            /\ inflight' = inflight \cup {sent("create", {})}
            /\ pub' = [pub EXCEPT ![p].pc = "reconcile", ![p].unnamed = TRUE]
         \/ /\ pub[p].pc = "upload" /\ Fail(p)
            /\ inflight' = inflight \cup {sent("upload", {next})}
         \/ /\ pub[p].pc = "patch" /\ End(p, [pub[p] EXCEPT !.published = TRUE], "error")
            /\ inflight' = inflight \cup {sent("publish", {})}
         \/ Fail(p) /\ UNCHANGED inflight
  <2>1. CASE pub[p].pc = "create"
    BY <2>1 DEF RequestFails
  <2>2. CASE pub[p].pc = "upload"
    BY <2>2 DEF RequestFails
  <2>3. CASE pub[p].pc = "patch"
    BY <2>3 DEF RequestFails
  <2>4. CASE pub[p].pc \notin {"create", "upload", "patch"}
    BY <2>4 DEF RequestFails
  <2> QED BY <2>1, <2>2, <2>3, <2>4
<1>2. RunOK(p) /\ HoldOK(p) /\ RerunOK(p) /\ pub \in [Publishers -> RunSet] /\ pub[p] \in RunSet
  BY Types DEF Inv
<1>3. pub[p].pc \in Running
  BY <1>1 DEF Running
<1>4. CASE Fail(p) /\ UNCHANGED inflight
  BY <1>1, <1>3, <1>4, Fails
<1>5. CASE /\ pub[p].pc = "upload" /\ Fail(p)
           /\ inflight' = inflight \cup {sent("upload", {next})}
  <2>1. next \in Sealed(p) /\ next \in Asset
    <3>1. (CHOOSE b \in pub[p].todo : TRUE) \in Names
      BY <1>2 DEF RunOK, RunSet
    <3> QED BY <3>1 DEF Sealed, Asset, Actors
  <2>2. {next} \in SUBSET Asset /\ {next} \subseteq Sealed(p)
    BY <2>1
  <2>3. End(p, pub[p], "error")
    BY <1>5 DEF Fail
  <2> HIDE DEF next
  <2> QED BY <1>1, <1>2, <1>5, <2>2, <2>3, LeftBehind
<1>6. CASE /\ pub[p].pc = "patch" /\ End(p, [pub[p] EXCEPT !.published = TRUE], "error")
           /\ inflight' = inflight \cup {sent("publish", {})}
  <2> DEFINE run == [pub[p] EXCEPT !.published = TRUE]
  <2>1. run \in RunSet
    BY <1>2 DEF RunSet
  <2>2. /\ run.todo = pub[p].todo /\ run.sawOther = pub[p].sawOther /\ run.unnamed = pub[p].unnamed
        /\ run.mine = pub[p].mine /\ run.created = pub[p].created
    BY <1>2 DEF RunSet
  <2>3. {} \in SUBSET Asset /\ {} \subseteq Sealed(p)
    OBVIOUS
  <2>4. End(p, run, "error")
    BY <1>6
  <2> HIDE DEF run
  <2> QED BY <1>1, <1>6, <2>1, <2>2, <2>3, <2>4, LeftBehind
<1>7. CASE /\ pub[p].pc = "create"
           /\ inflight' = inflight \cup {sent("create", {})}
           /\ pub' = [pub EXCEPT ![p].pc = "reconcile", ![p].unnamed = TRUE]
  <2> DEFINE new == pub'[p]
             q == sent("create", {})
  <2>1. pub' = [pub EXCEPT ![p] = [pub[p] EXCEPT !.pc = "reconcile", !.unnamed = TRUE]]
    BY <1>2, <1>7
  <2>2. new = [pub[p] EXCEPT !.pc = "reconcile", !.unnamed = TRUE]
    BY <1>2, <2>1
  <2>3. "reconcile" \in Running
    BY DEF Running, Requests
  <2>4. new \in RunSet
    BY <1>2, <2>2, <2>3, ZenonT(30) DEF RunSet
  <2>5. pub' \in [Publishers -> RunSet] /\ \A o \in Publishers \ {p} : pub'[o] = pub[o]
    BY <1>2, <2>1, <2>2, <2>4
  <2>6. /\ new.todo = pub[p].todo /\ new.pc = "reconcile" /\ new.unnamed = TRUE
        /\ new.mine = pub[p].mine /\ new.created = pub[p].created
        /\ new.published = pub[p].published /\ new.result = pub[p].result
        /\ new.sawOther = pub[p].sawOther
    BY <1>2, <2>2 DEF RunSet
  <2>7. /\ pub[p].mine = 0 /\ ~pub[p].created /\ ~pub[p].published
        /\ pub[p].result = "none" /\ pub[p].todo # {}
    BY <1>2, <1>7 DEF RunOK, Before
  <2>8. RunOK(p)'
    <3> HIDE DEF new
    <3> QED BY <2>6, <2>7 DEF RunOK, new, Before
  <2>9. Existing' = Existing /\ releases' = releases /\ nextId' = nextId /\ tag' = tag
    BY <1>1 DEF remote, Existing
  <2>10. 0 \notin Existing /\ 0 < nextId
    BY Types, PublishAssumption DEF Inv, Ids
  <2>11. HoldOK(p)'
    <3>1. "reconcile" \notin Public
      BY DEF Public
    <3> HIDE DEF new
    <3> QED BY <2>6, <2>7, <2>9, <2>10, <3>1 DEF HoldOK, new
  <2>12. RerunOK(p)'
    <3>1. ~(pub[p].sawOther /\ admin = 0)
      BY <1>2, <1>7 DEF RerunOK
    <3> QED BY <1>1, <2>6, <3>1 DEF RerunOK
  <2>13. q \in Request
    BY <2>7 DEF Request
  <2>14. q.op = "create" /\ q.by = p /\ q.id = 0
    BY <2>7
  <2> HIDE DEF q
  <2>15. ASSUME NEW x, x = q PROVE RequestOK(x)'
    <3>1. x.op = "create" /\ x.by = p /\ x.id = 0
      BY <2>14, <2>15
    <3> QED BY <2>6, <2>9, <2>10, <3>1 DEF RequestOK
  <2>16. inflight' \subseteq Request /\ \A x \in inflight' \ inflight : RequestOK(x)'
    BY <1>7, <2>13, <2>15 DEF Inv, TypeOK, q
  <2>17. pub[p].pc # "done" /\ new.unnamed
    BY <1>7, <2>6
  <2> QED BY <1>1, <2>5, <2>8, <2>11, <2>12, <2>16, <2>17, QuietStep
<1> QED BY <1>1, <1>4, <1>5, <1>6, <1>7

LEMMA CrashKeeps ==
    ASSUME Inv, NEW p \in Publishers, Crash(p)
    PROVE  Inv'
<1> DEFINE new == pub'[p]
<1>1. RunOK(p) /\ HoldOK(p) /\ RerunOK(p) /\ pub \in [Publishers -> RunSet] /\ pub[p] \in RunSet
  BY Types DEF Inv
<1>2. pub[p].pc \in Running /\ UNCHANGED <<remote, inflight, admin>>
  BY DEF Crash
<1>3. pub' = [pub EXCEPT ![p] = [pub[p] EXCEPT !.pc = "done", !.result = "crashed"]]
  BY <1>1 DEF Crash
<1>4. new = [pub[p] EXCEPT !.pc = "done", !.result = "crashed"]
  BY <1>1, <1>3
<1>5. new \in RunSet
  BY <1>1, <1>4 DEF RunSet
<1>6. pub' \in [Publishers -> RunSet] /\ \A o \in Publishers \ {p} : pub'[o] = pub[o]
  BY <1>1, <1>3, <1>4, <1>5
<1>7. /\ new.pc = "done" /\ new.todo = pub[p].todo /\ new.mine = pub[p].mine
      /\ new.created = pub[p].created /\ new.published = pub[p].published
      /\ new.result = "crashed" /\ new.unnamed = pub[p].unnamed
      /\ new.sawOther = pub[p].sawOther
  BY <1>1, <1>4 DEF RunSet
<1>8. RunOK(p)'
  <2> HIDE DEF new
  <2> QED BY <1>1, <1>7 DEF RunOK, new, Before
<1>9. Existing' = Existing /\ releases' = releases /\ nextId' = nextId /\ OfTag' = OfTag
        /\ admin' = admin
  BY <1>2 DEF remote, Existing, OfTag
<1>10. HoldOK(p)'
  <2>1. "done" \notin Verified /\ "done" \notin Public /\ "done" \notin Final
    BY DEF Verified, Public, Final
  <2> HIDE DEF new
  <2> QED BY <1>1, <1>7, <1>9, <2>1 DEF HoldOK, new
<1>11. RerunOK(p)'
  <2> HIDE DEF new
  <2> QED BY <1>1, <1>7, <1>9 DEF RerunOK, new
<1>12. UNCHANGED <<remote, admin>> /\ inflight' \subseteq Request /\ inflight' = inflight
  BY <1>2 DEF Inv, TypeOK
<1>13. pub[p].pc # "done" /\ (pub[p].unnamed => pub'[p].unnamed)
  BY <1>2, <1>7 DEF Running, Requests
<1> QED BY <1>6, <1>7, <1>8, <1>10, <1>11, <1>12, <1>13, QuietStep

-----------------------------------------------------------------------------
(* The steps that change the remote side: one release is added, one is     *)
(* changed, or one is gone.                                                *)

TagSet == [at : {"commit", "elsewhere"}, locked : BOOLEAN]

LEMMA RemoteChange ==
    ASSUME Inv, TypeOK', RemoteStep, NEW moved \in SUBSET Publishers,
           \A o \in Publishers \ moved : pub'[o] = pub[o],
           \A o \in moved : /\ RunOK(o)' /\ HoldOK(o)' /\ RerunOK(o)'
                            /\ pub[o].pc # "done" /\ (pub[o].unnamed => pub'[o].unnamed),
           inflight' \subseteq inflight,
           \A r \in Existing' : ReleaseOK(r)'
    PROVE  Inv'
<1>1. \A o \in Publishers : RunOK(o)'
  BY DEF Inv, RunOK
<1>2. \A o \in Publishers : HoldOK(o)'
  BY HoldKept
<1>3. \A o \in Publishers : RerunOK(o)'
  BY RerunKept
<1>4. ASSUME NEW q \in inflight' PROVE RequestOK(q)'
  <2>1. q \in inflight /\ q.by \in Publishers
    BY Types DEF Inv
  <2>2. pub[q.by].unnamed => pub'[q.by].unnamed
    BY <2>1
  <2>3. pub[q.by].pc = "done" => pub'[q.by] = pub[q.by]
    BY <2>1
  <2> QED BY <2>1, <2>2, <2>3, RequestKept
<1> QED BY <1>1, <1>2, <1>3, <1>4 DEF Inv

LEMMA Grown ==
    ASSUME Inv, NEW v \in Release, nextId <= MaxReleases,
           releases' = Add(nextId, v), nextId' = nextId + 1,
           UNCHANGED <<tag, enforced, admin>>, inflight' \subseteq inflight,
           pub' \in [Publishers -> RunSet]
    PROVE  /\ TypeOK' /\ RemoteStep
           /\ nextId \notin Existing /\ Existing' = Existing \cup {nextId}
           /\ releases'[nextId] = v
           /\ \A r \in Existing : releases'[r] = releases[r]
<1>1. /\ TypeOK /\ nextId \in Nat /\ nextId >= 1
      /\ \A r \in Existing : r \in Nat /\ r < nextId /\ releases[r] \in Release
  BY Types DEF Inv
<1>2. nextId \notin Existing
  BY <1>1
<1>3. Existing' = Existing \cup {nextId}
  BY DEF Add, Existing
<1>4. releases'[nextId] = v /\ \A r \in Existing : releases'[r] = releases[r]
  BY <1>2 DEF Add, Existing
<1>5. TypeOK'
  <2>1. releases' \in [Existing' -> Release]
    <3>1. releases' = [x \in Existing' |-> IF x = nextId THEN v ELSE releases[x]]
      BY <1>3 DEF Add
    <3> QED BY <3>1, <1>1, <1>3
  <2>2. ASSUME NEW s \in Existing' PROVE s \in 1 .. (nextId' - 1)
    <3>1. Existing \subseteq 1 .. (nextId - 1) /\ (s \in Existing \/ s = nextId)
      BY <1>1, <1>3 DEF TypeOK
    <3>2. s \in 1 .. nextId
      <4>1. nextId \in Nat /\ nextId >= 1
        BY <1>1
      <4>2. CASE s = nextId
        BY <4>1, <4>2
      <4>3. CASE s \in 1 .. (nextId - 1)
        BY <4>1, <4>3
      <4> QED BY <3>1, <4>2, <4>3
    <3>3. nextId' - 1 = nextId
      BY <1>1
    <3> QED BY <3>2, <3>3
  <2>3. nextId' \in 1 .. (MaxReleases + 1)
    BY <1>1, PublishAssumption
  <2>4. /\ tag' \in TagSet /\ enforced' \in BOOLEAN /\ inflight' \subseteq Request
        /\ admin' \in 0 .. MaxAdmin
    BY <1>1 DEF TypeOK, TagSet
  <2> QED BY <2>1, <2>2, <2>3, <2>4 DEF TypeOK, RunSet, TagSet
<1>6. RemoteStep
  BY <1>1, <1>3, <1>4 DEF RemoteStep
<1> QED BY <1>2, <1>3, <1>4, <1>5, <1>6

LEMMA Changed ==
    ASSUME Inv, NEW r \in Existing, NEW v \in Release, releases' = With(r, v),
           UNCHANGED <<nextId, enforced>>, tag' \in TagSet, tag'.at = tag.at,
           admin' \in 0 .. MaxAdmin, admin' = 0 => admin = 0,
           inflight' \subseteq inflight, pub' \in [Publishers -> RunSet],
           ~releases[r].immutable \/ v = releases[r],
           v.of = releases[r].of, v.by = releases[r].by,
           v.draft => releases[r].draft,
           releases[r].tampered => v.tampered,
           ~v.tampered /\ releases[r].assets = Sealed(releases[r].by) =>
              v.assets = releases[r].assets
    PROVE  /\ TypeOK' /\ RemoteStep
           /\ Existing' = Existing /\ releases'[r] = v
           /\ \A s \in Existing \ {r} : releases'[s] = releases[s]
<1>1. /\ TypeOK /\ nextId \in Nat
      /\ \A s \in Existing : releases[s] \in Release
      /\ releases \in [Existing -> Release]
  BY Types DEF Inv, TypeOK
<1>2. Existing' = Existing /\ releases' \in [Existing -> Release]
  BY <1>1 DEF With, Existing
<1>3. releases'[r] = v /\ \A s \in Existing \ {r} : releases'[s] = releases[s]
  BY <1>1 DEF With
<1>4. TypeOK'
  <2>1. releases' \in [Existing' -> Release] /\ Existing' \subseteq 1 .. (nextId' - 1)
    BY <1>1, <1>2 DEF TypeOK
  <2>2. nextId' \in 1 .. (MaxReleases + 1) /\ enforced' \in BOOLEAN /\ inflight' \subseteq Request
    BY <1>1 DEF TypeOK
  <2> QED BY <2>1, <2>2 DEF TypeOK, RunSet, TagSet
<1>5. RemoteStep
  <2>1. \A s \in Existing \cap Existing' :
          LET old == releases[s]
              new == releases'[s]
          IN  /\ new.of = old.of /\ new.by = old.by
              /\ old.immutable => new.immutable /\ new.assets = old.assets
              /\ new.draft => old.draft
              /\ old.tampered => new.tampered
              /\ old.of = "this" /\ ~new.tampered /\ old.assets = Sealed(old.by) =>
                    new.assets = old.assets
    BY <1>3
  <2> QED BY <2>1, <1>1, <1>2 DEF RemoteStep
<1> QED BY <1>2, <1>3, <1>4, <1>5

\* Only the changed release has to be looked at again.
LEMMA ChangedKeeps ==
    ASSUME Inv, NEW r \in Existing, NEW v \in Release, NEW moved \in SUBSET Publishers,
           TypeOK', RemoteStep, Existing' = Existing, releases'[r] = v,
           \A s \in Existing \ {r} : releases'[s] = releases[s],
           tag.locked => tag'.locked, inflight' \subseteq inflight,
           \A o \in Publishers \ moved : pub'[o] = pub[o],
           \A o \in moved : /\ RunOK(o)' /\ HoldOK(o)' /\ RerunOK(o)'
                            /\ pub[o].pc # "done" /\ (pub[o].unnamed => pub'[o].unnamed)
                            /\ pub'[o].mine = pub[o].mine /\ pub'[o].created = pub[o].created,
           v.of = releases[r].of, v.by = releases[r].by,
           v.immutable => ~v.draft /\ (v.of = "this" => tag'.locked),
           v.of = "this" => \A a \in v.assets : a.from \in {v.by, Admin},
           v.of = "this" /\ ~v.draft /\ ~v.tampered => v.assets = Sealed(v.by)
    PROVE  Inv'
<1>1. ASSUME NEW o \in Publishers
      PROVE  /\ pub[o].unnamed => pub'[o].unnamed
             /\ pub'[o].mine = pub[o].mine /\ pub'[o].created = pub[o].created
  BY <1>1
<1>2. ASSUME NEW s \in Existing \ {r} PROVE ReleaseOK(s)'
  BY <1>1, <1>2, ReleaseKept
<1>3. ReleaseOK(r)'
  <2>1. ReleaseOK(r)
    BY DEF Inv
  <2>2. v.of = "this" <=> v.by \in Publishers
    BY <2>1 DEF ReleaseOK
  <2>3. v.of = "this" => \/ pub'[v.by].unnamed
                         \/ pub'[v.by].created /\ pub'[v.by].mine = r
    BY <2>1, <2>2, <1>1 DEF ReleaseOK
  <2> QED BY <2>2, <2>3 DEF ReleaseOK
<1>4. \A s \in Existing' : ReleaseOK(s)'
  BY <1>2, <1>3
<1> QED BY <1>4, RemoteChange

\* A draft comes into being for a run that waits for the answer, or has given up
\* waiting for it.
LEMMA CreateDraftKeeps ==
    ASSUME Inv, NEW p \in Publishers, CreateDraft(p)
    PROVE  Inv'
<1> DEFINE v == [of |-> "this", draft |-> TRUE, immutable |-> FALSE,
                 by |-> p, assets |-> {}, tampered |-> FALSE]
           run == [pub[p] EXCEPT !.mine = nextId, !.created = TRUE]
           up  == [run EXCEPT !.pc = "upload"]
           un  == [pub[p] EXCEPT !.unnamed = TRUE]
           new == pub'[p]
<1>1. /\ pub[p].pc = "create" /\ nextId <= MaxReleases
      /\ releases' = Add(nextId, v) /\ nextId' = nextId + 1
      /\ UNCHANGED <<tag, enforced, admin>> /\ inflight' = inflight
      /\ pub' = [pub EXCEPT ![p] = up] \/ End(p, run, "error") \/ End(p, un, "error")
  BY DEF CreateDraft, ServerCreates
<1>2. /\ RunOK(p) /\ HoldOK(p) /\ RerunOK(p) /\ TypeOK
      /\ pub \in [Publishers -> RunSet] /\ pub[p] \in RunSet
      /\ nextId \in Nat /\ nextId \in 1 .. (MaxReleases + 1)
  BY Types DEF Inv
<1>3. v \in Release
  BY DEF Release, Actors
<1>4. /\ pub[p].mine = 0 /\ ~pub[p].created /\ ~pub[p].published /\ ~pub[p].unnamed
      /\ pub[p].result = "none" /\ pub[p].todo # {}
  BY <1>1, <1>2 DEF RunOK, Before
<1>5. nextId \in Ids
  BY <1>1, <1>2, PublishAssumption DEF Ids
<1>6. run \in RunSet
  BY <1>2, <1>5 DEF RunSet
<1>7. /\ run.mine = nextId /\ run.created /\ run.published = pub[p].published
      /\ run.todo = pub[p].todo /\ run.unnamed = pub[p].unnamed /\ run.sawOther = pub[p].sawOther
      /\ run.result = pub[p].result
  BY <1>2 DEF RunSet
<1>8. up \in RunSet /\ up.pc = "upload" /\ up.mine = run.mine /\ up.created = run.created
        /\ up.published = run.published /\ up.todo = run.todo /\ up.unnamed = run.unnamed
        /\ up.sawOther = run.sawOther /\ up.result = run.result
  <2> HIDE DEF run
  <2>1. "upload" \in Running
    BY DEF Running, Requests
  <2> QED BY <1>6, <2>1 DEF RunSet
<1>8a. un \in RunSet /\ un.unnamed /\ un.mine = pub[p].mine /\ un.created = pub[p].created
         /\ un.published = pub[p].published /\ un.todo = pub[p].todo
         /\ un.sawOther = pub[p].sawOther
  BY <1>2 DEF RunSet
<1> HIDE DEF run, up, un, new
<1>9. /\ pub' \in [Publishers -> RunSet]
      /\ \A o \in Publishers \ {p} : pub'[o] = pub[o]
      /\ new.todo = pub[p].todo /\ ~new.published /\ new.sawOther = pub[p].sawOther
      /\ \/ new.mine = nextId /\ new.created /\ ~new.unnamed
         \/ new.mine = 0 /\ ~new.created /\ new.unnamed /\ new.pc = "done"
      /\ \/ new.pc = "upload" /\ new.result = "none"
         \/ new.pc = "done" /\ new.result = "error"
              /\ (new.retained <=> (new.created /\ ~new.published))
  <2>1. CASE pub' = [pub EXCEPT ![p] = up]
    <3>1. new = up
      BY <1>2, <2>1 DEF new
    <3>2. pub' \in [Publishers -> RunSet] /\ \A o \in Publishers \ {p} : pub'[o] = pub[o]
      BY <1>2, <1>8, <2>1
    <3> QED BY <3>1, <3>2, <1>4, <1>7, <1>8
  <2>2. CASE End(p, run, "error")
    <3>1. /\ pub' \in [Publishers -> RunSet]
          /\ \A o \in Publishers \ {p} : pub'[o] = pub[o]
          /\ new.pc = "done" /\ new.todo = run.todo /\ new.mine = run.mine
          /\ new.created = run.created /\ new.published = run.published
          /\ new.retained = (run.created /\ ~run.published)
          /\ new.result = "error" /\ new.sawOther = run.sawOther /\ new.unnamed = run.unnamed
      BY <2>2, <1>6, EndFields DEF new
    <3> QED BY <3>1, <1>4, <1>7
  <2>3. CASE End(p, un, "error")
    <3>1. /\ pub' \in [Publishers -> RunSet]
          /\ \A o \in Publishers \ {p} : pub'[o] = pub[o]
          /\ new.pc = "done" /\ new.todo = un.todo /\ new.mine = un.mine
          /\ new.created = un.created /\ new.published = un.published
          /\ new.retained = (un.created /\ ~un.published)
          /\ new.result = "error" /\ new.sawOther = un.sawOther /\ new.unnamed = un.unnamed
      BY <2>3, <1>8a, EndFields DEF new
    <3> QED BY <3>1, <1>4, <1>8a
  <2> QED BY <1>1, <2>1, <2>2, <2>3
<1>10. /\ TypeOK' /\ RemoteStep
       /\ nextId \notin Existing /\ Existing' = Existing \cup {nextId}
       /\ releases'[nextId] = v
       /\ \A r \in Existing : releases'[r] = releases[r]
  BY <1>1, <1>3, <1>9, Grown
<1>11. RunOK(p)'
  BY <1>4, <1>9 DEF RunOK, new, Before
<1>12. HoldOK(p)'
  <2>1. {"upload", "done"} \cap (Verified \cup Public \cup Final) = {}
    BY DEF Verified, Public, Final
  <2>2. new.pc \notin Verified \cup Public \cup Final /\ new.result # "ok"
    BY <2>1, <1>9
  <2>3. new.mine \in Existing' => new.mine = nextId /\ ~new.unnamed /\ v.by = p
    <3>1. 0 \notin Existing'
      BY <1>1, <1>2, <1>10, Types DEF Inv, TypeOK
    <3> QED BY <3>1, <1>9
  <2>4. new.mine < nextId'
    BY <1>1, <1>2, <1>9
  <2> HIDE DEF v
  <2> QED BY <2>2, <2>3, <2>4, <1>10 DEF HoldOK, new
<1>13. RerunOK(p)'
  <2>1. ~(pub[p].sawOther /\ admin = 0)
    BY <1>1, <1>2 DEF RerunOK
  <2> QED BY <1>1, <1>9, <2>1 DEF RerunOK, new
<1>14. ASSUME NEW r \in Existing PROVE ReleaseOK(r)'
  <2>1. ReleaseOK(r)
    BY DEF Inv
  <2>2. releases[r].by # p
    BY <1>4, <2>1 DEF ReleaseOK
  <2>3. releases[r].by \in Publishers => pub'[releases[r].by] = pub[releases[r].by]
    BY <1>9, <2>2
  <2>4. releases'[r] = releases[r] /\ (tag.locked => tag'.locked)
    BY <1>1, <1>10
  <2> QED BY <2>3, <2>4, ReleaseKept
<1>15. ASSUME NEW r, r = nextId PROVE ReleaseOK(r)'
  <2>1. releases'[r] = v
    BY <1>10, <1>15
  <2>2. pub'[p].unnamed \/ (pub'[p].created /\ pub'[p].mine = r)
    BY <1>9, <1>15 DEF new
  <2> QED BY <2>1, <2>2 DEF ReleaseOK
<1>16. \A r \in Existing' : ReleaseOK(r)'
  BY <1>10, <1>14, <1>15
<1>17. {p} \in SUBSET Publishers /\ pub[p].pc # "done"
  BY <1>1
<1> QED BY <1>1, <1>4, <1>9, <1>10, <1>11, <1>12, <1>13, <1>16, <1>17, RemoteChange

LEMMA OtherTagReleasedKeeps ==
    ASSUME Inv, OtherTagReleased
    PROVE  Inv'
<1> DEFINE v == [of |-> "other", draft |-> FALSE, immutable |-> TRUE,
                 by |-> Admin, assets |-> {}, tampered |-> FALSE]
<1>1. /\ nextId <= MaxReleases
      /\ releases' = Add(nextId, v) /\ nextId' = nextId + 1
      /\ UNCHANGED <<tag, enforced, admin>> /\ inflight' = inflight /\ pub' = pub
  BY DEF OtherTagReleased
<1>2. v \in Release
  BY DEF Release, Actors
<1>3. pub' \in [Publishers -> RunSet]
  BY <1>1, Types DEF Inv
<1>4. /\ TypeOK' /\ RemoteStep
      /\ nextId \notin Existing /\ Existing' = Existing \cup {nextId}
      /\ releases'[nextId] = v
      /\ \A r \in Existing : releases'[r] = releases[r]
  BY <1>1, <1>2, <1>3, Grown
<1>5. ASSUME NEW r \in Existing PROVE ReleaseOK(r)'
  BY <1>1, <1>4, ReleaseKept
<1>6. ASSUME NEW r, r = nextId PROVE ReleaseOK(r)'
  <2>1. releases'[r] = v
    BY <1>4, <1>6
  <2> QED BY <2>1, PublishAssumption DEF ReleaseOK
<1>7. \A r \in Existing' : ReleaseOK(r)'
  BY <1>4, <1>5, <1>6
<1> QED BY <1>1, <1>4, <1>7, RemoteChange

\* A name that is free shows that the release is not complete yet, so whoever
\* uploads does not change one that is.
LEMMA FreeName ==
    ASSUME NEW r, NEW p, NEW a \in Sealed(p), ServerAccepts(r, a)
    PROVE  releases[r].assets # Sealed(p)
BY DEF ServerAccepts

\* What an upload leaves: the run's own release with one artifact of its own more.
LEMMA Uploaded ==
    ASSUME Inv, NEW p \in Publishers, NEW r, NEW a \in Sealed(p), ServerUploads(r, a),
           r \in Existing => releases[r].by = p,
           UNCHANGED admin, inflight' \subseteq inflight, pub' \in [Publishers -> RunSet]
    PROVE  /\ r \in Existing /\ Existing' = Existing /\ TypeOK' /\ RemoteStep
           /\ releases'[r] \in Release
           /\ releases'[r].of = "this" /\ releases'[r].by = p /\ releases[r].of = "this"
           /\ releases[r].by = p
           /\ releases'[r].immutable = FALSE
           /\ releases'[r].draft = releases[r].draft
           /\ releases'[r].tampered = releases[r].tampered
           /\ ~releases'[r].draft => releases'[r].tampered
           /\ \A b \in releases'[r].assets : b.from \in {p, Admin}
           /\ \A s \in Existing \ {r} : releases'[s] = releases[s]
           /\ UNCHANGED <<nextId, tag, enforced>>
<1> DEFINE old == releases[r]
           v == [releases[r] EXCEPT !.assets = @ \cup {a}]
<1>1. /\ r \in Existing /\ ~old.immutable /\ releases' = With(r, v)
      /\ UNCHANGED <<nextId, tag, enforced>> /\ ServerAccepts(r, a)
  BY DEF ServerUploads, ServerAccepts
<1>2. ReleaseOK(r) /\ old \in Release /\ TypeOK
  BY <1>1, Types DEF Inv
<1>3. old.by = p /\ old.of = "this"
  BY <1>1, <1>2 DEF ReleaseOK
<1>4. a \in Asset /\ a.from = p
  BY DEF Sealed, Asset, Actors
<1>5. v \in Release
  BY <1>2, <1>4 DEF Release
<1>6. /\ v.of = old.of /\ v.by = old.by /\ v.immutable = old.immutable
      /\ v.draft = old.draft /\ v.tampered = old.tampered /\ v.assets = old.assets \cup {a}
  BY <1>2 DEF Release
<1>7. old.assets # Sealed(p)
  BY <1>1, FreeName
<1>8. tag \in TagSet /\ admin \in 0 .. MaxAdmin
  BY <1>2 DEF TypeOK, TagSet
<1>9. /\ tag' \in TagSet /\ tag'.at = tag.at /\ UNCHANGED <<nextId, enforced>>
      /\ admin' \in 0 .. MaxAdmin /\ (admin' = 0 => admin = 0)
  BY <1>1, <1>8
<1> HIDE DEF v, old
<1>10. /\ TypeOK' /\ RemoteStep /\ Existing' = Existing /\ releases'[r] = v
       /\ \A s \in Existing \ {r} : releases'[s] = releases[s]
  <2>1. /\ v.of = releases[r].of /\ v.by = releases[r].by
        /\ v.draft => releases[r].draft
        /\ releases[r].tampered => v.tampered
        /\ ~v.tampered /\ releases[r].assets = Sealed(releases[r].by) =>
              v.assets = releases[r].assets
        /\ ~releases[r].immutable
    BY <1>1, <1>3, <1>6, <1>7 DEF old
  <2> QED BY <1>1, <1>5, <1>9, <2>1, Changed
<1>11. v.immutable = FALSE
  BY <1>1, <1>2, <1>6 DEF Release
<1>12. ~v.draft => v.tampered
  BY <1>2, <1>3, <1>6, <1>7 DEF ReleaseOK, old
<1>13. \A b \in v.assets : b.from \in {p, Admin}
  BY <1>2, <1>3, <1>4, <1>6 DEF ReleaseOK, old
<1> QED BY <1>1, <1>3, <1>5, <1>6, <1>10, <1>11, <1>12, <1>13 DEF old

LEMMA UploadArtifactKeeps ==
    ASSUME Inv, NEW p \in Publishers, UploadArtifact(p)
    PROVE  Inv'
<1> DEFINE a == CHOOSE b \in pub[p].todo : TRUE
           asset == [name |-> a, from |-> p]
           r == pub[p].mine
           new == pub'[p]
<1>1. /\ pub[p].pc = "upload" /\ a \in pub[p].todo /\ UNCHANGED <<inflight, admin>>
      /\ \/ Fail(p) /\ UNCHANGED remote
         \/ /\ ServerUploads(r, asset)
            /\ \/ Goto(p, "draft")
               \/ pub[p].todo # {a} /\ pub' = [pub EXCEPT ![p].todo = @ \ {a}]
  BY DEF UploadArtifact
<1>2. /\ RunOK(p) /\ HoldOK(p) /\ RerunOK(p) /\ TypeOK
      /\ pub \in [Publishers -> RunSet] /\ pub[p] \in RunSet
  BY Types DEF Inv
<1>3. pub[p].pc \in Running
  BY <1>1 DEF Running, Requests
<1>4. CASE Fail(p) /\ UNCHANGED remote
  BY <1>1, <1>3, <1>4, Fails
<1>5. CASE /\ ServerUploads(r, asset)
           /\ \/ Goto(p, "draft")
              \/ pub[p].todo # {a} /\ pub' = [pub EXCEPT ![p].todo = @ \ {a}]
  <2>1. pub[p].created /\ ~pub[p].unnamed /\ pub[p].result = "none"
    BY <1>1, <1>2 DEF RunOK, Before
  <2>2. asset \in Sealed(p)
    BY <1>1, <1>2 DEF Sealed, RunSet
  <2>3. r \in Existing => releases[r].by = p
    BY <1>2, <2>1 DEF HoldOK
  <2> HIDE DEF asset
  <2>4. /\ pub' \in [Publishers -> RunSet]
        /\ \A o \in Publishers \ {p} : pub'[o] = pub[o]
        /\ new.todo # {} /\ new.pc \in {"upload", "draft"}
        /\ new.mine = pub[p].mine /\ new.created = pub[p].created
        /\ new.published = pub[p].published /\ new.result = pub[p].result
        /\ new.sawOther = pub[p].sawOther /\ new.unnamed = pub[p].unnamed
    <3>1. CASE Goto(p, "draft")
      <4>1. "draft" \in Running /\ Names # {}
        BY PublishAssumption DEF Running, Requests
      <4> QED BY <3>1, <4>1, GotoFields
    <3>2. CASE pub[p].todo # {a} /\ pub' = [pub EXCEPT ![p].todo = @ \ {a}]
      <4> HIDE DEF a
      <4> QED BY <1>1, <3>2, TodoFields DEF a
    <3> QED BY <1>5, <3>1, <3>2
  <2> HIDE DEF a, new
  <2>5. inflight' \subseteq inflight /\ UNCHANGED admin
    BY <1>1
  <2>6. /\ r \in Existing /\ Existing' = Existing /\ TypeOK' /\ RemoteStep
        /\ releases'[r] \in Release
        /\ releases'[r].of = "this" /\ releases'[r].by = p /\ releases[r].of = "this"
        /\ releases[r].by = p
        /\ releases'[r].immutable = FALSE
        /\ ~releases'[r].draft => releases'[r].tampered
        /\ \A b \in releases'[r].assets : b.from \in {p, Admin}
        /\ \A s \in Existing \ {r} : releases'[s] = releases[s]
        /\ UNCHANGED <<nextId, tag, enforced>>
    BY <1>5, <2>2, <2>3, <2>4, <2>5, Uploaded, ZenonT(30)
  <2>7. RunOK(p)'
    BY <1>2, <2>1, <2>4 DEF RunOK, new, Before
  <2>8. HoldOK(p)'
    <3>1. {"upload", "draft"} \cap (Verified \cup Public \cup Final) = {}
      BY DEF Verified, Public, Final
    <3> QED BY <1>2, <2>1, <2>4, <2>6, <3>1 DEF HoldOK, new
  <2>9. RerunOK(p)'
    <3>1. ~(pub[p].sawOther /\ admin = 0)
      BY <1>1, <1>2 DEF RerunOK
    <3> QED BY <1>1, <2>4, <3>1 DEF RerunOK, new
  <2>10. pub[p].pc # "done" /\ (pub[p].unnamed => pub'[p].unnamed)
    BY <1>1, <2>1
  <2>11. {p} \in SUBSET Publishers
    OBVIOUS
  <2>12. /\ pub'[p].mine = pub[p].mine /\ pub'[p].created = pub[p].created
    BY <2>4 DEF new
  <2>13. tag.locked => tag'.locked
    BY <2>6
  <2>14. \A o \in {p} : /\ RunOK(o)' /\ HoldOK(o)' /\ RerunOK(o)'
                        /\ pub[o].pc # "done" /\ (pub[o].unnamed => pub'[o].unnamed)
                        /\ pub'[o].mine = pub[o].mine /\ pub'[o].created = pub[o].created
    BY <2>7, <2>8, <2>9, <2>10, <2>12
  <2>15. PICK v \in Release : v = releases'[r]
    BY <2>6
  <2>16. /\ v.of = releases[r].of /\ v.by = releases[r].by /\ ~v.immutable
         /\ ~v.draft => v.tampered
         /\ \A b \in v.assets : b.from \in {v.by, Admin}
    BY <2>6, <2>15
  <2> HIDE DEF r
  <2> QED BY <2>4, <2>5, <2>6, <2>11, <2>13, <2>14, <2>15, <2>16, ChangedKeeps
<1> QED BY <1>1, <1>4, <1>5

\* What a publication leaves: a public release, complete unless it was tampered with.
LEMMA Publication ==
    ASSUME Inv, NEW p \in Publishers, NEW r, ServerPublishes(r), r \in Existing,
           releases[r].by = p,
           ~releases[r].tampered => releases[r].assets = Sealed(p),
           UNCHANGED admin, inflight' \subseteq inflight, pub' \in [Publishers -> RunSet]
    PROVE  /\ Existing' = Existing /\ TypeOK' /\ RemoteStep
           /\ releases'[r] \in Release
           /\ releases'[r].of = "this" /\ releases'[r].by = p /\ releases[r].of = "this"
           /\ ~releases'[r].draft
           /\ releases'[r].immutable => tag'.locked
           /\ releases'[r].tampered = releases[r].tampered
           /\ releases'[r].assets = releases[r].assets
           /\ \A s \in Existing \ {r} : releases'[s] = releases[s]
           /\ tag.locked => tag'.locked
           /\ UNCHANGED <<nextId, enforced>>
<1> DEFINE old == releases[r]
           v == IF Published(r) THEN old
                ELSE [old EXCEPT !.draft = FALSE, !.immutable = enforced]
<1>1. ReleaseOK(r) /\ old \in Release /\ TypeOK /\ releases \in [Existing -> Release]
  BY Types DEF Inv, TypeOK
<1>2. old.of = "this"
  BY <1>1 DEF ReleaseOK
<1>3. releases' = With(r, v)
  BY <1>1 DEF ServerPublishes, With
<1>4. v \in Release
  BY <1>1 DEF Release, TypeOK
<1>5. /\ v.of = old.of /\ v.by = old.by /\ v.draft = FALSE /\ v.tampered = old.tampered
      /\ v.assets = old.assets
      /\ v.immutable = IF old.draft THEN enforced ELSE old.immutable
  BY <1>1 DEF Release, Published
<1>6. tag \in TagSet /\ admin \in 0 .. MaxAdmin
  BY <1>1 DEF TypeOK, TagSet
<1>7. /\ tag' \in TagSet /\ tag'.at = tag.at
      /\ tag'.locked = (tag.locked \/ (~Published(r) /\ enforced))
      /\ UNCHANGED <<nextId, enforced>>
  BY <1>1, <1>6 DEF ServerPublishes, TagSet, Published, Release, TypeOK
<1>8. admin' \in 0 .. MaxAdmin /\ (admin' = 0 => admin = 0)
  BY <1>6
<1>9. ~old.immutable \/ v = old
  BY <1>1 DEF ReleaseOK, Published
<1> HIDE DEF v, old
<1>10. /\ TypeOK' /\ RemoteStep /\ Existing' = Existing /\ releases'[r] = v
       /\ \A s \in Existing \ {r} : releases'[s] = releases[s]
  <2>1. /\ v.of = releases[r].of /\ v.by = releases[r].by
        /\ v.draft => releases[r].draft
        /\ releases[r].tampered => v.tampered
        /\ ~v.tampered /\ releases[r].assets = Sealed(releases[r].by) =>
              v.assets = releases[r].assets
        /\ ~releases[r].immutable \/ v = releases[r]
    BY <1>5, <1>9 DEF old
  <2> QED BY <1>3, <1>4, <1>7, <1>8, <2>1, Changed
<1>11. v.immutable => tag'.locked
  <2>1. CASE old.draft
    BY <2>1, <1>5, <1>7 DEF Published, old
  <2>2. CASE ~old.draft
    BY <2>2, <1>1, <1>2, <1>5, <1>7 DEF ReleaseOK, old
  <2> QED BY <2>1, <2>2
<1> QED BY <1>2, <1>4, <1>5, <1>7, <1>10, <1>11 DEF old

LEMMA PublishDraftKeeps ==
    ASSUME Inv, NEW p \in Publishers, PublishDraft(p)
    PROVE  Inv'
<1> DEFINE r == pub[p].mine
           run == [pub[p] EXCEPT !.published = TRUE]
           next == [run EXCEPT !.pc = "published"]
           new == pub'[p]
<1>1. /\ pub[p].pc = "patch" /\ UNCHANGED <<inflight, admin>>
      /\ \/ End(p, run, "error") /\ UNCHANGED remote
         \/ /\ ServerPublishes(r) /\ r \in Existing
            /\ pub' = [pub EXCEPT ![p] = next] \/ End(p, run, "error")
  BY DEF PublishDraft, ServerMayPublish
<1>2. /\ RunOK(p) /\ HoldOK(p) /\ RerunOK(p) /\ TypeOK
      /\ pub \in [Publishers -> RunSet] /\ pub[p] \in RunSet
  BY Types DEF Inv
<1>3. /\ run \in RunSet /\ run.published = TRUE
      /\ run.todo = pub[p].todo /\ run.sawOther = pub[p].sawOther /\ run.unnamed = pub[p].unnamed
      /\ run.mine = pub[p].mine /\ run.created = pub[p].created /\ run.result = pub[p].result
  BY <1>2 DEF RunSet
<1>4. /\ next \in RunSet /\ next.pc = "published" /\ next.published = TRUE
      /\ next.todo = run.todo /\ next.sawOther = run.sawOther /\ next.unnamed = run.unnamed
      /\ next.mine = run.mine /\ next.created = run.created /\ next.result = run.result
  <2> HIDE DEF run
  <2>1. "published" \in Running
    BY DEF Running, Requests
  <2> QED BY <1>3, <2>1 DEF RunSet
<1> HIDE DEF run, next, new
<1>5. pub[p].created /\ ~pub[p].unnamed /\ pub[p].result = "none" /\ pub[p].todo # {}
  BY <1>1, <1>2 DEF RunOK, Before
<1>6. CASE End(p, run, "error") /\ UNCHANGED remote
  <2>1. pub[p].pc \in Running /\ run.mine < nextId
    BY <1>1, <1>2, <1>3 DEF Running, Requests, HoldOK
  <2>2. inflight' \subseteq Request /\ inflight' = inflight
    BY <1>1, <1>2 DEF TypeOK
  <2> QED BY <1>1, <1>3, <1>5, <1>6, <2>1, <2>2, EndsWithError
<1>7. CASE /\ ServerPublishes(r) /\ r \in Existing
           /\ pub' = [pub EXCEPT ![p] = next] \/ End(p, run, "error")
  <2>1. releases[r].by = p /\ (~releases[r].tampered => releases[r].assets = Sealed(p))
    BY <1>1, <1>2, <1>5, <1>7 DEF HoldOK, Verified
  <2>2. /\ pub' \in [Publishers -> RunSet]
        /\ \A o \in Publishers \ {p} : pub'[o] = pub[o]
        /\ new.todo = pub[p].todo /\ new.mine = pub[p].mine /\ new.created = pub[p].created
        /\ new.published = TRUE /\ new.sawOther = pub[p].sawOther /\ new.unnamed = pub[p].unnamed
        /\ \/ new.pc = "published" /\ new.result = "none"
           \/ new.pc = "done" /\ new.result = "error" /\ new.retained = FALSE
    <3>1. CASE pub' = [pub EXCEPT ![p] = next]
      <4>1. new = next
        BY <1>2, <3>1 DEF new
      <4>2. pub' \in [Publishers -> RunSet] /\ \A o \in Publishers \ {p} : pub'[o] = pub[o]
        BY <1>2, <1>4, <3>1
      <4> QED BY <4>1, <4>2, <1>3, <1>4, <1>5
    <3>2. CASE End(p, run, "error")
      <4>1. /\ pub' \in [Publishers -> RunSet]
            /\ \A o \in Publishers \ {p} : pub'[o] = pub[o]
            /\ new.pc = "done" /\ new.todo = run.todo /\ new.mine = run.mine
            /\ new.created = run.created /\ new.published = run.published
            /\ new.retained = (run.created /\ ~run.published)
            /\ new.result = "error" /\ new.sawOther = run.sawOther /\ new.unnamed = run.unnamed
        BY <3>2, <1>3, EndFields DEF new
      <4> QED BY <4>1, <1>3
    <3> QED BY <1>7, <3>1, <3>2
  <2>3. inflight' \subseteq inflight /\ UNCHANGED admin
    BY <1>1
  <2>4. /\ Existing' = Existing /\ TypeOK' /\ RemoteStep
        /\ releases'[r] \in Release
        /\ releases'[r].of = "this" /\ releases'[r].by = p /\ releases[r].of = "this"
        /\ ~releases'[r].draft
        /\ releases'[r].immutable => tag'.locked
        /\ releases'[r].tampered = releases[r].tampered
        /\ releases'[r].assets = releases[r].assets
        /\ \A s \in Existing \ {r} : releases'[s] = releases[s]
        /\ tag.locked => tag'.locked
        /\ UNCHANGED <<nextId, enforced>>
    BY <1>7, <2>1, <2>2, <2>3, Publication
  <2>5. RunOK(p)'
    BY <1>5, <2>2 DEF RunOK, new, Before
  <2>6. HoldOK(p)'
    <3>1. {"published", "done"} \cap (Public \cup Final) = {}
      BY DEF Public, Final
    <3> QED BY <1>2, <1>5, <1>7, <2>1, <2>2, <2>4, <3>1 DEF HoldOK, new
  <2>7. RerunOK(p)'
    <3>1. ~(pub[p].sawOther /\ admin = 0)
      BY <1>1, <1>2 DEF RerunOK
    <3> QED BY <1>1, <2>2, <3>1 DEF RerunOK, new
  <2>8. \A o \in {p} : /\ RunOK(o)' /\ HoldOK(o)' /\ RerunOK(o)'
                       /\ pub[o].pc # "done" /\ (pub[o].unnamed => pub'[o].unnamed)
                       /\ pub'[o].mine = pub[o].mine /\ pub'[o].created = pub[o].created
    BY <1>1, <1>5, <2>2, <2>5, <2>6, <2>7 DEF new
  <2>9. PICK v \in Release : v = releases'[r]
    BY <2>4
  <2>10. ReleaseOK(r)
    BY <1>7 DEF Inv
  <2>11. /\ v.of = releases[r].of /\ v.by = releases[r].by
         /\ v.immutable => ~v.draft /\ (v.of = "this" => tag'.locked)
         /\ \A b \in v.assets : b.from \in {v.by, Admin}
         /\ ~v.tampered => v.assets = Sealed(v.by)
    BY <2>1, <2>4, <2>9, <2>10 DEF ReleaseOK
  <2>12. {p} \in SUBSET Publishers /\ r \in Existing
    BY <1>7
  <2>13. /\ Existing' = Existing /\ TypeOK' /\ RemoteStep /\ releases'[r] = v
         /\ \A s \in Existing \ {r} : releases'[s] = releases[s]
         /\ tag.locked => tag'.locked
         /\ inflight' \subseteq inflight
         /\ \A o \in Publishers \ {p} : pub'[o] = pub[o]
    BY <2>2, <2>3, <2>4, <2>9
  <2> HIDE DEF r
  <2> QED BY <2>8, <2>9, <2>11, <2>12, <2>13, ChangedKeeps
<1> QED BY <1>1, <1>6, <1>7

-----------------------------------------------------------------------------
(* Late requests and the administrator.                                    *)

\* A request that reaches the server after its run gave up on it.
LEMMA DeliverKeeps ==
    ASSUME Inv, Deliver
    PROVE  Inv'
<1>1. PICK q \in inflight :
        /\ inflight' = inflight \ {q}
        /\ \/ q.op = "create"  /\ ServerCreates(q.by)
           \/ q.op = "upload"  /\ \E a \in q.asset : ServerUploads(q.id, a)
           \/ q.op = "publish" /\ ServerPublishes(q.id)
        /\ UNCHANGED <<admin, pub>>
  BY DEF Deliver
<1> DEFINE p == q.by
<1>2. RequestOK(q) /\ p \in Publishers /\ q \in Request /\ TypeOK
  BY Types DEF Inv
<1>3. HoldOK(p)
  BY <1>2 DEF Inv
<1>4. /\ inflight' \subseteq inflight /\ pub' = pub /\ admin' = admin
      /\ pub' \in [Publishers -> RunSet]
  BY <1>1, Types DEF Inv
<1> HIDE DEF p
<1>5. CASE q.op = "create" /\ ServerCreates(p)
  <2> DEFINE v == [of |-> "this", draft |-> TRUE, immutable |-> FALSE,
                   by |-> p, assets |-> {}, tampered |-> FALSE]
  <2>1. /\ nextId <= MaxReleases /\ releases' = Add(nextId, v) /\ nextId' = nextId + 1
        /\ UNCHANGED <<tag, enforced>>
    BY <1>5 DEF ServerCreates
  <2>2. v \in Release
    BY <1>2 DEF Release, Actors
  <2>3. v.of = "this" /\ v.by = p /\ ~v.immutable /\ v.assets = {} /\ v.draft
    OBVIOUS
  <2> HIDE DEF v
  <2>4. /\ TypeOK' /\ RemoteStep
        /\ nextId \notin Existing /\ Existing' = Existing \cup {nextId}
        /\ releases'[nextId] = v
        /\ \A r \in Existing : releases'[r] = releases[r]
    BY <1>4, <2>1, <2>2, Grown
  <2>5. ASSUME NEW r \in Existing PROVE ReleaseOK(r)'
    BY <1>4, <2>1, <2>4, ReleaseKept
  <2>6. pub'[p].unnamed
    BY <1>2, <1>4, <1>5 DEF RequestOK, p
  <2>7. ASSUME NEW r, r = nextId PROVE ReleaseOK(r)'
    <3>1. releases'[r] = v
      BY <2>4, <2>7
    <3> QED BY <1>2, <2>3, <2>6, <3>1 DEF ReleaseOK
  <2>8. \A r \in Existing' : ReleaseOK(r)'
    BY <2>4, <2>5, <2>7
  <2>9. {} \in SUBSET Publishers /\ \A o \in Publishers \ {} : pub'[o] = pub[o]
    BY <1>4
  <2> QED BY <1>4, <2>4, <2>8, <2>9, RemoteChange
<1>6. CASE q.op # "create" /\ ~(q.id \in Existing)
  BY <1>1, <1>6 DEF ServerUploads, ServerAccepts, ServerPublishes, ServerMayPublish
<1>7. ASSUME q.op # "create", q.id \in Existing PROVE releases[q.id].by = p
  BY <1>2, <1>3, <1>7 DEF RequestOK, HoldOK, p
<1>8. CASE q.op = "upload" /\ q.id \in Existing
  <2>1. PICK a \in q.asset : ServerUploads(q.id, a)
    BY <1>1, <1>8
  <2>2. a \in Sealed(p)
    BY <1>2, <1>8, <2>1 DEF RequestOK, p
  <2> DEFINE r == q.id
  <2>3. ServerUploads(r, a) /\ (r \in Existing => releases[r].by = p)
    BY <1>7, <1>8, <2>1
  <2> HIDE DEF r
  <2>4. /\ r \in Existing /\ Existing' = Existing /\ TypeOK' /\ RemoteStep
        /\ releases'[r] \in Release
        /\ releases'[r].of = "this" /\ releases'[r].by = p /\ releases[r].of = "this"
        /\ releases[r].by = p
        /\ releases'[r].immutable = FALSE
        /\ ~releases'[r].draft => releases'[r].tampered
        /\ \A b \in releases'[r].assets : b.from \in {p, Admin}
        /\ \A s \in Existing \ {r} : releases'[s] = releases[s]
        /\ UNCHANGED <<nextId, tag, enforced>>
    BY <1>2, <1>4, <2>2, <2>3, Uploaded, ZenonT(30)
  <2>5. PICK v \in Release : v = releases'[r]
    BY <2>4
  <2>6. /\ v.of = releases[r].of /\ v.by = releases[r].by /\ ~v.immutable
        /\ ~v.draft => v.tampered
        /\ \A b \in v.assets : b.from \in {v.by, Admin}
    BY <2>4, <2>5
  <2>7. {} \in SUBSET Publishers /\ (tag.locked => tag'.locked)
    BY <2>4
  <2> QED BY <1>4, <2>4, <2>5, <2>6, <2>7, ChangedKeeps
<1>9. CASE q.op = "publish" /\ q.id \in Existing
  <2> DEFINE r == q.id
  <2>1. /\ ServerPublishes(r) /\ r \in Existing /\ releases[r].by = p
        /\ ~releases[r].tampered => releases[r].assets = Sealed(p)
    BY <1>1, <1>2, <1>7, <1>9 DEF RequestOK, p
  <2> HIDE DEF r
  <2>2. /\ Existing' = Existing /\ TypeOK' /\ RemoteStep
        /\ releases'[r] \in Release
        /\ releases'[r].of = "this" /\ releases'[r].by = p /\ releases[r].of = "this"
        /\ ~releases'[r].draft
        /\ releases'[r].immutable => tag'.locked
        /\ releases'[r].tampered = releases[r].tampered
        /\ releases'[r].assets = releases[r].assets
        /\ \A s \in Existing \ {r} : releases'[s] = releases[s]
        /\ tag.locked => tag'.locked
        /\ UNCHANGED <<nextId, enforced>>
    BY <1>2, <1>4, <2>1, Publication
  <2>3. PICK v \in Release : v = releases'[r]
    BY <2>2
  <2>4. ReleaseOK(r)
    BY <2>1 DEF Inv
  <2>5. /\ v.of = releases[r].of /\ v.by = releases[r].by
        /\ v.immutable => ~v.draft /\ (v.of = "this" => tag'.locked)
        /\ \A b \in v.assets : b.from \in {v.by, Admin}
        /\ ~v.tampered => v.assets = Sealed(v.by)
    BY <2>1, <2>2, <2>3, <2>4 DEF ReleaseOK
  <2>6. {} \in SUBSET Publishers
    OBVIOUS
  <2> QED BY <1>4, <2>1, <2>2, <2>3, <2>5, <2>6, ChangedKeeps
<1>10. q.op \in {"create", "upload", "publish"}
  BY <1>2 DEF Request
<1> QED BY <1>1, <1>5, <1>6, <1>8, <1>9, <1>10 DEF p

\* An edit of the administrator marks the release, and an immutable one cannot
\* be edited.
LEMMA TamperKeeps ==
    ASSUME Inv, NEW r \in OfTag, NEW v \in Release, releases' = With(r, v),
           ~releases[r].immutable, v.tampered, v.of = releases[r].of, v.by = releases[r].by,
           v.draft => releases[r].draft, v.immutable => ~v.draft /\ tag'.locked,
           \A a \in v.assets : a \in releases[r].assets \/ a.from = Admin,
           UNCHANGED <<nextId, enforced, inflight, pub>>,
           tag' \in TagSet, tag'.at = tag.at, tag.locked => tag'.locked,
           admin' = admin + 1, admin' \in 0 .. MaxAdmin
    PROVE  Inv'
<1>1. r \in Existing /\ ReleaseOK(r) /\ TypeOK /\ admin \in Nat
  BY PublishAssumption DEF OfTag, Inv, TypeOK
<1>2. releases[r].of = "this"
  BY DEF OfTag
<1>3. pub' \in [Publishers -> RunSet] /\ inflight' \subseteq inflight /\ pub' = pub
  BY Types DEF Inv
<1>4. admin' # 0
  BY <1>1
<1>5. /\ TypeOK' /\ RemoteStep /\ Existing' = Existing /\ releases'[r] = v
      /\ \A s \in Existing \ {r} : releases'[s] = releases[s]
  BY <1>1, <1>3, <1>4, Changed
<1>6. \A a \in v.assets : a.from \in {v.by, Admin}
  BY <1>1, <1>2 DEF ReleaseOK
<1>7. {} \in SUBSET Publishers
  OBVIOUS
<1> QED BY <1>1, <1>2, <1>3, <1>5, <1>6, <1>7, ChangedKeeps

LEMMA DeleteKeeps ==
    ASSUME Inv, NEW d \in Existing, releases' = [x \in Existing \ {d} |-> releases[x]],
           UNCHANGED <<nextId, tag, enforced, inflight, pub>>,
           admin' = admin + 1, admin' \in 0 .. MaxAdmin
    PROVE  Inv'
<1>1. /\ TypeOK /\ nextId \in Nat /\ releases \in [Existing -> Release]
      /\ pub \in [Publishers -> RunSet]
  BY Types DEF Inv, TypeOK
<1>2. Existing' = Existing \ {d} /\ \A r \in Existing' : releases'[r] = releases[r]
  BY DEF Existing
<1>3. TypeOK'
  <2>1. releases' \in [Existing' -> Release] /\ Existing' \subseteq 1 .. (nextId' - 1)
    BY <1>1, <1>2 DEF TypeOK
  <2> QED BY <1>1, <2>1 DEF TypeOK, RunSet
<1>4. admin' # 0
  BY <1>1, PublishAssumption DEF TypeOK
<1>5. RemoteStep
  BY <1>1, <1>2, <1>4 DEF RemoteStep
<1>6. ASSUME NEW r \in Existing' PROVE ReleaseOK(r)'
  <2>1. r \in Existing /\ releases'[r] = releases[r] /\ (tag.locked => tag'.locked)
    BY <1>2, <1>6
  <2>2. pub' = pub
    OBVIOUS
  <2> QED BY <2>1, <2>2, ReleaseKept
<1>7. {} \in SUBSET Publishers /\ inflight' \subseteq inflight
        /\ \A o \in Publishers \ {} : pub'[o] = pub[o]
  OBVIOUS
<1> QED BY <1>3, <1>5, <1>6, <1>7, RemoteChange

\* Moving a tag that is not locked, or switching the policy.
LEMMA SettingKeeps ==
    ASSUME Inv, UNCHANGED <<releases, nextId, inflight, pub>>,
           tag' \in TagSet, tag'.locked = tag.locked, tag.locked => tag'.at = tag.at,
           enforced' \in BOOLEAN, admin' = admin + 1, admin' \in 0 .. MaxAdmin
    PROVE  Inv'
<1>1. /\ TypeOK /\ nextId \in Nat /\ pub \in [Publishers -> RunSet]
      /\ Existing' = Existing
  BY Types DEF Inv, Existing
<1>2. TypeOK'
  BY <1>1 DEF TypeOK, TagSet, Existing
<1>3. admin' # 0
  BY <1>1, PublishAssumption DEF TypeOK
<1>4. RemoteStep
  BY <1>1, <1>3 DEF RemoteStep
<1>5. ASSUME NEW r \in Existing' PROVE ReleaseOK(r)'
  <2>1. r \in Existing /\ releases'[r] = releases[r] /\ (tag.locked => tag'.locked)
    BY <1>1, <1>5
  <2>2. pub' = pub
    OBVIOUS
  <2> QED BY <2>1, <2>2, ReleaseKept
<1>6. {} \in SUBSET Publishers /\ inflight' \subseteq inflight
        /\ \A o \in Publishers \ {} : pub'[o] = pub[o]
  OBVIOUS
<1> QED BY <1>2, <1>4, <1>5, <1>6, RemoteChange

LEMMA AdminActsKeeps ==
    ASSUME Inv, AdminActs
    PROVE  Inv'
<1>1. /\ admin' = admin + 1 /\ UNCHANGED <<inflight, pub>>
      /\ admin < MaxAdmin
  BY DEF AdminActs
<1>2. TypeOK /\ tag \in TagSet /\ enforced \in BOOLEAN
  BY DEF Inv, TypeOK, TagSet
<1>3. admin' \in 0 .. MaxAdmin
  BY <1>1, <1>2, PublishAssumption DEF TypeOK
<1>4. ASSUME NEW r \in OfTag
      PROVE  /\ releases[r] \in Release /\ r \in Existing /\ releases[r].of = "this"
             /\ ReleaseOK(r)
  BY Types DEF Inv, OfTag
<1>5. CASE /\ ~tag.locked
           /\ tag' = [tag EXCEPT !.at = IF @ = "commit" THEN "elsewhere" ELSE "commit"]
           /\ UNCHANGED <<releases, nextId, enforced>>
  <2>1. tag' \in TagSet /\ tag'.locked = tag.locked
    BY <1>2, <1>5 DEF TagSet
  <2> QED BY <1>1, <1>2, <1>3, <1>5, <2>1, SettingKeeps
<1>6. CASE enforced' = ~enforced /\ UNCHANGED <<releases, nextId, tag>>
  BY <1>1, <1>2, <1>3, <1>6, SettingKeeps
<1>7. ASSUME NEW r \in OfTag, NEW assets \in SUBSET Asset, ~releases[r].immutable,
             releases' = With(r, [[releases[r] EXCEPT !.assets = assets]
                                     EXCEPT !.tampered = TRUE]),
             \A a \in assets : a \in releases[r].assets \/ a.from = Admin,
             UNCHANGED <<nextId, tag, enforced>>
      PROVE  Inv'
  <2> DEFINE v == [[releases[r] EXCEPT !.assets = assets] EXCEPT !.tampered = TRUE]
  <2>1. /\ v \in Release /\ v.of = releases[r].of /\ v.by = releases[r].by /\ v.tampered
        /\ v.draft = releases[r].draft /\ v.immutable = releases[r].immutable
        /\ v.assets = assets
    BY <1>4 DEF Release
  <2>2. releases' = With(r, v)
    BY <1>7
  <2> HIDE DEF v
  <2>3. v.immutable => ~v.draft /\ tag'.locked
    BY <1>7, <2>1
  <2>4. \A a \in v.assets : a \in releases[r].assets \/ a.from = Admin
    BY <1>7, <2>1
  <2> QED BY <1>1, <1>2, <1>3, <1>7, <2>1, <2>2, <2>3, <2>4, TamperKeeps
<1>8. CASE \E r \in OfTag : \E a \in releases[r].assets :
             /\ ~releases[r].immutable
             /\ \/ Tamper(r, [releases[r] EXCEPT !.assets = @ \ {a}])
                \/ Tamper(r, [releases[r] EXCEPT !.assets =
                                 (@ \ {a}) \cup {[a EXCEPT !.from = Admin]}])
             /\ UNCHANGED <<nextId, tag, enforced>>
  <2>a. PICK r \in OfTag : \E a \in releases[r].assets :
             /\ ~releases[r].immutable
             /\ \/ Tamper(r, [releases[r] EXCEPT !.assets = @ \ {a}])
                \/ Tamper(r, [releases[r] EXCEPT !.assets =
                                 (@ \ {a}) \cup {[a EXCEPT !.from = Admin]}])
             /\ UNCHANGED <<nextId, tag, enforced>>
    BY <1>8
  <2>1. PICK a \in releases[r].assets :
             /\ ~releases[r].immutable
             /\ \/ Tamper(r, [releases[r] EXCEPT !.assets = @ \ {a}])
                \/ Tamper(r, [releases[r] EXCEPT !.assets =
                                 (@ \ {a}) \cup {[a EXCEPT !.from = Admin]}])
             /\ UNCHANGED <<nextId, tag, enforced>>
    BY <2>a
  <2> DEFINE old == releases[r].assets
             less == old \ {a}
             swapped == less \cup {[a EXCEPT !.from = Admin]}
  <2>2. old \subseteq Asset
    BY <1>4 DEF Release
  <2>3. [a EXCEPT !.from = Admin] \in Asset /\ [a EXCEPT !.from = Admin].from = Admin
    BY <2>2 DEF Asset, Actors
  <2>4. less \in SUBSET Asset /\ \A b \in less : b \in old \/ b.from = Admin
    BY <2>2
  <2>5. swapped \in SUBSET Asset /\ \A b \in swapped : b \in old \/ b.from = Admin
    BY <2>3, <2>4
  <2>6. CASE Tamper(r, [releases[r] EXCEPT !.assets = @ \ {a}])
    <3>1. releases' = With(r, [[releases[r] EXCEPT !.assets = less] EXCEPT !.tampered = TRUE])
      BY <2>6 DEF Tamper
    <3> HIDE DEF less
    <3> QED BY <1>7, <2>1, <2>4, <3>1
  <2>7. CASE Tamper(r, [releases[r] EXCEPT !.assets =
                           (@ \ {a}) \cup {[a EXCEPT !.from = Admin]}])
    <3>1. releases' = With(r, [[releases[r] EXCEPT !.assets = swapped] EXCEPT !.tampered = TRUE])
      BY <2>7 DEF Tamper
    <3> HIDE DEF swapped
    <3> QED BY <1>7, <2>1, <2>5, <3>1
  <2> QED BY <2>1, <2>6, <2>7
<1>9. CASE \E r \in OfTag : \E a \in Names :
             /\ ServerAccepts(r, [name |-> a, from |-> Admin])
             /\ Tamper(r, [releases[r] EXCEPT !.assets =
                              @ \cup {[name |-> a, from |-> Admin]}])
             /\ UNCHANGED <<nextId, tag, enforced>>
  <2>1. PICK r \in OfTag, a \in Names :
             /\ ServerAccepts(r, [name |-> a, from |-> Admin])
             /\ Tamper(r, [releases[r] EXCEPT !.assets =
                              @ \cup {[name |-> a, from |-> Admin]}])
             /\ UNCHANGED <<nextId, tag, enforced>>
    BY <1>9
  <2> DEFINE more == releases[r].assets \cup {[name |-> a, from |-> Admin]}
  <2>2. [name |-> a, from |-> Admin] \in Asset /\ [name |-> a, from |-> Admin].from = Admin
    BY DEF Asset, Actors
  <2>3. more \in SUBSET Asset /\ \A b \in more : b \in releases[r].assets \/ b.from = Admin
    BY <1>4, <2>2 DEF Release
  <2>4. ~releases[r].immutable
    BY <2>1 DEF ServerAccepts
  <2>5. releases' = With(r, [[releases[r] EXCEPT !.assets = more] EXCEPT !.tampered = TRUE])
    BY <2>1 DEF Tamper
  <2> HIDE DEF more
  <2> QED BY <1>7, <2>1, <2>3, <2>4, <2>5
<1>10. CASE \E r \in OfTag :
             /\ ServerMayPublish(r) /\ ~Published(r)
             /\ Tamper(r, [releases[r] EXCEPT !.draft = FALSE, !.immutable = enforced])
             /\ tag' = [tag EXCEPT !.locked = @ \/ enforced]
             /\ UNCHANGED <<nextId, enforced>>
  <2>1. PICK r \in OfTag :
             /\ ~Published(r)
             /\ Tamper(r, [releases[r] EXCEPT !.draft = FALSE, !.immutable = enforced])
             /\ tag' = [tag EXCEPT !.locked = @ \/ enforced]
             /\ UNCHANGED <<nextId, enforced>>
    BY <1>10
  <2> DEFINE v == [[releases[r] EXCEPT !.draft = FALSE, !.immutable = enforced]
                      EXCEPT !.tampered = TRUE]
  <2>2. /\ v \in Release /\ v.of = releases[r].of /\ v.by = releases[r].by /\ v.tampered
        /\ ~v.draft /\ v.immutable = enforced /\ v.assets = releases[r].assets
    BY <1>2, <1>4 DEF Release
  <2>3. releases' = With(r, v)
    BY <2>1 DEF Tamper
  <2>4. ~releases[r].immutable
    BY <1>4, <2>1 DEF ReleaseOK, Published
  <2>5. tag' \in TagSet /\ tag'.at = tag.at /\ tag'.locked = (tag.locked \/ enforced)
    BY <1>2, <2>1 DEF TagSet
  <2> HIDE DEF v
  <2> QED BY <1>1, <1>3, <2>1, <2>2, <2>3, <2>4, <2>5, TamperKeeps
<1>11. CASE \E r \in Existing :
             /\ releases' = [x \in Existing \ {r} |-> releases[x]]
             /\ UNCHANGED <<nextId, tag, enforced>>
  BY <1>1, <1>3, <1>11, DeleteKeeps
<1> QED BY <1>5, <1>6, <1>8, <1>9, <1>10, <1>11 DEF AdminActs

-----------------------------------------------------------------------------
(* The invariant, and what it says of every run.                           *)

LEMMA InitInv == Init => Inv
<1> SUFFICES ASSUME Init PROVE Inv
  OBVIOUS
<1> DEFINE run0 == [pc |-> "idle", page |-> 1, mine |-> 0, todo |-> Names,
                    created |-> FALSE, published |-> FALSE, retained |-> FALSE,
                    result |-> "none", sawOther |-> FALSE, unnamed |-> FALSE]
<1>1. /\ releases = [r \in {} |-> r] /\ nextId = 1 /\ tag = [at |-> "commit", locked |-> FALSE]
      /\ enforced = TRUE /\ inflight = {} /\ admin = 0 /\ pub = [p \in Publishers |-> run0]
  BY DEF Init
<1>2. Existing = {}
  BY <1>1 DEF Existing
<1>3. run0 \in RunSet
  BY PublishAssumption DEF RunSet, Ids
<1>4. TypeOK
  <2>1. releases \in [Existing -> Release] /\ Existing \subseteq 1 .. (nextId - 1)
    BY <1>1, <1>2
  <2>2. nextId \in 1 .. (MaxReleases + 1) /\ admin \in 0 .. MaxAdmin
    BY <1>1, PublishAssumption
  <2>3. tag \in [at : {"commit", "elsewhere"}, locked : BOOLEAN] /\ enforced \in BOOLEAN
          /\ inflight \subseteq Request
    BY <1>1
  <2>4. pub \in [Publishers -> RunSet]
    BY <1>1, <1>3
  <2> QED BY <2>1, <2>2, <2>3, <2>4 DEF TypeOK, RunSet
<1>5. ASSUME NEW p \in Publishers
      PROVE  /\ pub[p].pc = "idle" /\ pub[p].mine = 0 /\ pub[p].todo = Names
             /\ ~pub[p].created /\ ~pub[p].published /\ pub[p].result = "none"
             /\ ~pub[p].sawOther /\ ~pub[p].unnamed
  BY <1>1
<1>6. ASSUME NEW p \in Publishers PROVE RunOK(p)
  BY <1>5, PublishAssumption DEF RunOK, Before
<1>7. ASSUME NEW p \in Publishers PROVE HoldOK(p)
  BY <1>1, <1>2, <1>5 DEF HoldOK, Public
<1>8. ASSUME NEW p \in Publishers PROVE RerunOK(p)
  BY <1>5 DEF RerunOK
<1> QED BY <1>1, <1>2, <1>4, <1>6, <1>7, <1>8 DEF Inv

LEMMA StepInv == Inv /\ [Next]_vars => Inv'
<1> SUFFICES ASSUME Inv, [Next]_vars PROVE Inv'
  OBVIOUS
<1>1. CASE UNCHANGED vars
  <2>1. UNCHANGED <<releases, nextId, tag, enforced, inflight, admin, pub>>
    BY <1>1 DEF vars, remote
  <2>2. TypeOK'
    BY <2>1 DEF Inv, TypeOK, Existing
  <2>3. \A p \in Publishers : RunOK(p)' /\ HoldOK(p)' /\ RerunOK(p)'
    BY <2>1, ZenonT(30) DEF Inv, RunOK, HoldOK, RerunOK, Existing, OfTag, Newer
  <2>4. \A r \in Existing' : ReleaseOK(r)'
    BY <2>1 DEF Inv, ReleaseOK, Existing
  <2>5. \A q \in inflight' : RequestOK(q)'
    BY <2>1 DEF Inv, RequestOK, Existing
  <2> QED BY <2>2, <2>3, <2>4, <2>5 DEF Inv
<1>2. CASE \E p \in Publishers : Start(p) \/ Step(p) \/ Crash(p)
  BY <1>2, StartKeeps, CrashKeeps, RequireImmutableReleasesKeeps, FindReleaseByTagKeeps,
     RequireRemoteTagCommitKeeps, CreateDraftKeeps, UploadArtifactKeeps, RequireDraftKeeps,
     RequireAssetListKeeps, RequireNoOverflowKeeps, RequireDownloadedAssetKeeps,
     VerifySealedKeeps,
     PublishDraftKeeps, RequirePublishedKeeps, RequestFailsKeeps DEF Step
<1>3. CASE Deliver
  BY <1>3, DeliverKeeps
<1>4. CASE OtherTagReleased
  BY <1>4, OtherTagReleasedKeeps
<1>5. CASE AdminActs
  BY <1>5, AdminActsKeeps
<1> QED BY <1>1, <1>2, <1>3, <1>4, <1>5 DEF Next

LEMMA InvHolds == Spec => []Inv
BY InitInv, StepInv, PTL DEF Spec

\* The remote and the local state keep their shape, and no release id is used
\* twice: what the server's handlers and the runs assign is always a record of
\* the kind the next request reads.
THEOREM TypeCorrect == Spec => []TypeOK
<1>1. Inv => TypeOK
  BY DEF Inv
<1> QED BY <1>1, InvHolds, PTL

\* publish() reports success only for a public, immutable release of its own with
\* exactly the sealed artifacts, whose tag resolves to the commit.
THEOREM SuccessComplete == Spec => []SuccessIsComplete
<1>1. Inv => SuccessIsComplete
  <2> SUFFICES ASSUME Inv, NEW p \in Publishers, pub[p].result = "ok", pub[p].mine \in Existing
               PROVE  LET r == releases[pub[p].mine] IN
                      /\ ~r.draft /\ r.immutable /\ r.by = p
                      /\ r.assets = Sealed(p)
                      /\ tag.at = "commit"
    BY DEF SuccessIsComplete
  <2>1. HoldOK(p) /\ ReleaseOK(pub[p].mine)
    BY DEF Inv
  <2> QED BY <2>1 DEF HoldOK, ReleaseOK
<1> QED BY <1>1, InvHolds, PTL

\* Whatever arrives late, no release mixes the artifacts of two runs, and one that
\* is public and that nobody edited holds all artifacts of the run that made it.
THEOREM OneRunsArtifacts == Spec => []ArtifactsOfOneRun
<1>1. Inv => ArtifactsOfOneRun
  BY DEF Inv, ReleaseOK, OfTag, ArtifactsOfOneRun, OwnDraftOnly, PublishedIsComplete, Published
<1> QED BY <1>1, InvHolds, PTL

\* A run that fails says that it leaves its draft behind, unless it had asked for
\* the publication or never learnt which draft is its own.
THEOREM DraftReported == Spec => []DraftIsReported
<1>1. Inv => DraftIsReported
  <2> SUFFICES ASSUME Inv, NEW r \in OfTag, ~Published(r), releases[r].by # Admin,
                      pub[releases[r].by].result = "error"
               PROVE  LET p == releases[r].by IN
                      \/ pub[p].retained
                      \/ pub[p].published
                      \/ pub[p].unnamed /\ pub[p].mine # r
    BY DEF DraftIsReported
  <2> DEFINE p == releases[r].by
  <2>1. r \in Existing /\ releases[r].of = "this" /\ releases[r].draft
    BY DEF OfTag, Published
  <2>2. ReleaseOK(r) /\ p \in Publishers
    BY <2>1 DEF Inv, ReleaseOK
  <2>3. RunOK(p) /\ HoldOK(p)
    BY <2>2 DEF Inv
  <2> HIDE DEF p
  <2>4. pub[p].retained <=> (pub[p].created /\ ~pub[p].published)
    BY <2>3 DEF RunOK, p
  <2>5. CASE pub[p].unnamed /\ pub[p].mine = r
    <3>1. pub[p].created
      BY <2>1, <2>3, <2>5 DEF HoldOK
    <3> QED BY <2>4, <3>1 DEF p
  <2>6. CASE ~pub[p].unnamed
    <3>1. pub[p].created
      BY <2>1, <2>2, <2>6 DEF ReleaseOK, p
    <3> QED BY <2>4, <3>1 DEF p
  <2> QED BY <2>5, <2>6 DEF p
<1> QED BY <1>1, InvHolds, PTL

\* A run that starts beside a release or a draft for its tag finds it in the
\* listing, however many pages newer releases have pushed it back meanwhile, and
\* creates nothing itself.
THEOREM RerunCreatesNone == Spec => []RerunCreatesNothing
<1>1. Inv => RerunCreatesNothing
  <2> SUFFICES ASSUME Inv, NEW p \in Publishers, pub[p].sawOther, admin = 0
               PROVE  /\ \A r \in OfTag : releases[r].by # p
                      /\ \A q \in inflight : q.by # p
    BY DEF RerunCreatesNothing
  <2>1. ~pub[p].created /\ ~pub[p].unnamed
    BY DEF Inv, RerunOK
  <2>2. ASSUME NEW r \in OfTag PROVE releases[r].by # p
    <3>1. r \in Existing /\ releases[r].of = "this"
      BY DEF OfTag
    <3> QED BY <2>1, <3>1 DEF Inv, ReleaseOK
  <2>3. ASSUME NEW q \in inflight PROVE q.by # p
    BY <2>1 DEF Inv, RequestOK
  <2> QED BY <2>2, <2>3
<1> QED BY <1>1, InvHolds, PTL
=============================================================================
