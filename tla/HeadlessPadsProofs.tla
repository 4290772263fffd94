------------------------- MODULE HeadlessPadsProofs -------------------------
(* For any pads, serial numbers and ports, and however often pads come and *)
(* go: no two open pads have one uid, and what is published is sound.      *)
EXTENDS HeadlessPads, ClaimLemmas, SequenceTheorems

USE HeadlessAssumption

Ordinals(pad) == {n \in 1 .. Len(g_pads) + 1 : ~UidTaken(UidOf(pad, n))}

\* More ordinals than open pads: one of them is free.
LEMMA OrdinalFree ==
    ASSUME NEW S, g_pads \in Seq(S), NEW pad
    PROVE  Ordinals(pad) # {}
<1> DEFINE L == Len(g_pads)
           holder == [n \in 1 .. L + 1 |->
                        CHOOSE i \in 1 .. L : g_pads[i].uid = UidOf(pad, n)]
<1>1. L \in Nat
  OBVIOUS
<1>2. SUFFICES ASSUME \A n \in 1 .. L + 1 : UidTaken(UidOf(pad, n)) PROVE FALSE
  BY DEF Ordinals
<1>3. \A n \in 1 .. L + 1 : holder[n] \in 1 .. L /\ g_pads[holder[n]].uid = UidOf(pad, n)
  BY <1>2 DEF UidTaken
<1>4. holder \in [1 .. L + 1 -> 1 .. L]
  BY <1>3
<1>5. /\ IsFiniteSet(1 .. L + 1) /\ Cardinality(1 .. L + 1) = L + 1
      /\ IsFiniteSet(1 .. L) /\ Cardinality(1 .. L) = L
  <2>1. 1 \in Int /\ L \in Int /\ L + 1 \in Int /\ ~(1 > L + 1)
    BY <1>1
  <2>2. /\ IsFiniteSet(1 .. L + 1)
        /\ Cardinality(1 .. L + 1) = IF 1 > L + 1 THEN 0 ELSE L + 1 - 1 + 1
    BY <2>1, FS_Interval
  <2>3. IsFiniteSet(1 .. L) /\ Cardinality(1 .. L) = IF 1 > L THEN 0 ELSE L - 1 + 1
    BY <2>1, FS_Interval
  <2> QED BY <1>1, <2>2, <2>3
<1>6. PICK m, n \in 1 .. L + 1 : m # n /\ holder[m] = holder[n]
  <2>1. Cardinality(1 .. L) < Cardinality(1 .. L + 1)
    BY <1>1, <1>5
  <2> HIDE DEF holder
  <2> QED BY <1>4, <1>5, <2>1, FS_PigeonHole
<1>7. UidOf(pad, m) = UidOf(pad, n)
  BY <1>3, <1>6
<1> QED BY <1>6, <1>7 DEF UidOf

\* A set of naturals has a least element, so CHOOSE finds a free ordinal.
LEMMA OrdinalChosen ==
    ASSUME NEW S, g_pads \in Seq(S), NEW pad
    PROVE  ~UidTaken(UidOf(pad, Ordinal(pad))) /\ Ordinal(pad) \in Nat
<1>1. Ordinals(pad) # {} /\ Ordinals(pad) \subseteq Nat
  BY OrdinalFree DEF Ordinals
<1>2. PICK n \in Ordinals(pad) : \A m \in Ordinals(pad) : n <= m
  BY <1>1, LeastNatural
<1>3. Ordinal(pad) \in Ordinals(pad)
  BY <1>2 DEF Ordinal, Ordinals
<1> QED BY <1>1, <1>3 DEF Ordinals

LEMMA NewUidFree ==
    ASSUME NEW S, g_pads \in Seq(S), NEW pad \in Pads
    PROVE  ~UidTaken(NewUid(pad)) /\ NewUid(pad) \in Uids
<1>1. Guid[pad] \in Nat /\ Serial[pad] \in Nat
  OBVIOUS
<1> QED BY <1>1, OrdinalChosen DEF NewUid, UidOf, Uids

-----------------------------------------------------------------------------
(* resolve_pads.                                                           *)

\* An open pad.
OpenPad == [id : DOMAIN padOf, uid : Uids]

\* What resolve_pads is called with.
Resolvable == g_cfg \in [Ports -> Port] /\ \E S : g_pads \in Seq(S)

LEMMA LenIsNat == Resolvable => Len(g_pads) \in Nat /\ Indices \subseteq Nat \ {0}
  BY DEF Resolvable, Indices

LEMMA FirstIs ==
    ASSUME Resolvable, NEW S \in SUBSET Indices
    PROVE  /\ First(S) \in Indices \union {NoPad}
           /\ S = {} => First(S) = NoPad
           /\ S # {} => First(S) \in S
<1>1. CASE S = {}
  BY <1>1 DEF First
<1>2. CASE S # {}
  <2>1. PICK i \in S : \A j \in S : i <= j
    BY <1>2, LenIsNat, LeastNatural
  <2>2. First(S) \in S
    BY <2>1 DEF First
  <2> QED BY <1>2, <2>2
<1> QED BY <1>1, <1>2

\* The pads port p may claim, of those the ports below it left.
Exact(p, taken) ==
    {i \in Indices : g_pads[i].uid = g_cfg[p].uid /\ i \notin taken}
Similar(p, taken) ==
    {i \in Indices : g_pads[i].uid.guid = g_cfg[p].guid
                     /\ (\A q \in Ports : ByUid[q] # i) /\ i \notin taken}

UidClaim(p, taken) ==
    IF Wants(p) /\ g_cfg[p].uid # NoUid THEN First(Exact(p, taken)) ELSE NoPad
GuidClaim(p, taken) ==
    IF ByUid[p] # NoPad THEN ByUid[p]
    ELSE IF ~Wants(p) THEN NoPad ELSE First(Similar(p, taken))

\* The first pass comes to an end, and gives each port what its own step says.
LEMMA ByUidSolved ==
    ASSUME Resolvable
    PROVE  /\ ByUid \in [Ports -> Indices \union {NoPad}]
           /\ \A p \in Ports : ByUid[p] = UidClaim(p, Below(ByUid, p))
<1> DEFINE X == Indices \union {NoPad}
           pick == [x \in (0 .. NumPorts - 1) \X SUBSET X |-> UidClaim(x[1], x[2])]
           Solves(f) == f = [p \in Ports |->
              IF Wants(p) /\ g_cfg[p].uid # NoUid
              THEN First({i \in Indices : g_pads[i].uid = g_cfg[p].uid
                                        /\ \A q \in 0 .. p - 1 : f[q] # i})
              ELSE NoPad]
<1>1. pick \in Picks(NumPorts, X)
  <2>1. \A p, taken : UidClaim(p, taken) \in X
    BY FirstIs DEF UidClaim, Exact
  <2> QED BY <2>1 DEF Picks
<1>2. PICK f : Obeys(f, NumPorts, X, pick)
  <2> HIDE DEF pick, X
  <2> QED BY <1>1, ClaimsExist
<1>3. ASSUME NEW g \in [Ports -> X] , NEW p \in Ports
      PROVE  UidClaim(p, Below(g, p)) =
              IF Wants(p) /\ g_cfg[p].uid # NoUid
              THEN First({i \in Indices : g_pads[i].uid = g_cfg[p].uid
                                        /\ \A q \in 0 .. p - 1 : g[q] # i})
              ELSE NoPad
  <2>1. Exact(p, Below(g, p)) = {i \in Indices : g_pads[i].uid = g_cfg[p].uid
                                        /\ \A q \in 0 .. p - 1 : g[q] # i}
    BY DEF Exact, Below
  <2> QED BY <2>1 DEF UidClaim
<1>4. Solves(f)
  <2>1. \A p \in Ports : f[p] = UidClaim(p, Below(f, p))
    <3> SUFFICES ASSUME NEW p \in Ports PROVE f[p] = UidClaim(p, Below(f, p))
      OBVIOUS
    <3>1. Below(f, p) \in SUBSET X
      BY <1>2 DEF Ports, Below, Obeys
    <3> QED BY <1>2, <3>1 DEF Ports, Obeys
  <2> QED BY <1>2, <1>3, <2>1 DEF Ports, Obeys
<1>5. ByUid = CHOOSE g : Solves(g)
  BY DEF ByUid
<1>6. Solves(ByUid)
  <2> HIDE DEF Solves
  <2> QED BY <1>4, <1>5
<1>7. ByUid \in [Ports -> X]
  <2>1. \A p \in Ports : (IF Wants(p) /\ g_cfg[p].uid # NoUid
              THEN First({i \in Indices : g_pads[i].uid = g_cfg[p].uid
                                        /\ \A q \in 0 .. p - 1 : ByUid[q] # i})
              ELSE NoPad) \in X
    BY FirstIs
  <2> QED BY <1>6, <2>1
<1> QED BY <1>3, <1>6, <1>7

\* The second pass keeps what the first gave.
LEMMA PortPadSolved ==
    ASSUME Resolvable
    PROVE  /\ PortPad \in [Ports -> Indices \union {NoPad}]
           /\ \A p \in Ports : PortPad[p] = GuidClaim(p, Below(PortPad, p))
<1> DEFINE X == Indices \union {NoPad}
           pick == [x \in (0 .. NumPorts - 1) \X SUBSET X |-> GuidClaim(x[1], x[2])]
           Solves(f) == f = [p \in Ports |->
              IF ByUid[p] # NoPad THEN ByUid[p]
              ELSE IF ~Wants(p) THEN NoPad
              ELSE First({i \in Indices : g_pads[i].uid.guid = g_cfg[p].guid
                                          /\ (\A q \in Ports : ByUid[q] # i)
                                          /\ \A q \in 0 .. p - 1 : f[q] # i})]
<1> ByUid \in [Ports -> X]
  BY ByUidSolved
<1>1. pick \in Picks(NumPorts, X)
  <2>1. \A p \in Ports : \A taken : GuidClaim(p, taken) \in X
    BY FirstIs DEF GuidClaim, Similar
  <2> QED BY <2>1 DEF Picks, Ports
<1>2. PICK f : Obeys(f, NumPorts, X, pick)
  <2> HIDE DEF pick, X
  <2> QED BY <1>1, ClaimsExist
<1>3. ASSUME NEW g \in [Ports -> X] , NEW p \in Ports
      PROVE  GuidClaim(p, Below(g, p)) =
              IF ByUid[p] # NoPad THEN ByUid[p]
              ELSE IF ~Wants(p) THEN NoPad
              ELSE First({i \in Indices : g_pads[i].uid.guid = g_cfg[p].guid
                                          /\ (\A q \in Ports : ByUid[q] # i)
                                          /\ \A q \in 0 .. p - 1 : g[q] # i})
  <2>1. Similar(p, Below(g, p)) =
             {i \in Indices : g_pads[i].uid.guid = g_cfg[p].guid
                              /\ (\A q \in Ports : ByUid[q] # i)
                              /\ \A q \in 0 .. p - 1 : g[q] # i}
    BY DEF Similar, Below
  <2> QED BY <2>1 DEF GuidClaim
<1>4. Solves(f)
  <2>1. \A p \in Ports : f[p] = GuidClaim(p, Below(f, p))
    <3> SUFFICES ASSUME NEW p \in Ports PROVE f[p] = GuidClaim(p, Below(f, p))
      OBVIOUS
    <3>1. Below(f, p) \in SUBSET X
      BY <1>2 DEF Ports, Below, Obeys
    <3> QED BY <1>2, <3>1 DEF Ports, Obeys
  <2> QED BY <1>2, <1>3, <2>1 DEF Ports, Obeys
<1>5. PortPad = CHOOSE g : Solves(g)
  BY DEF PortPad
<1>6. Solves(PortPad)
  <2> HIDE DEF Solves
  <2> QED BY <1>4, <1>5
<1>7. PortPad \in [Ports -> X]
  <2>1. \A p \in Ports :
           (IF ByUid[p] # NoPad THEN ByUid[p]
            ELSE IF ~Wants(p) THEN NoPad
            ELSE First({i \in Indices : g_pads[i].uid.guid = g_cfg[p].guid
                                        /\ (\A q \in Ports : ByUid[q] # i)
                                        /\ \A q \in 0 .. p - 1 : PortPad[q] # i})) \in X
    BY FirstIs
  <2> QED BY <1>6, <2>1
<1> QED BY <1>3, <1>6, <1>7

\* A claimed pad is one the port may have, and one that no lower port claimed.
LEMMA ExactClaims ==
    ASSUME Resolvable, NEW p \in Ports, ByUid[p] # NoPad
    PROVE  /\ Wants(p) /\ g_cfg[p].uid # NoUid
           /\ ByUid[p] \in Indices /\ g_pads[ByUid[p]].uid = g_cfg[p].uid
           /\ \A q \in 0 .. p - 1 : ByUid[q] # ByUid[p]
<1>1. ByUid[p] = UidClaim(p, Below(ByUid, p))
  BY ByUidSolved
<1>2. /\ Wants(p) /\ g_cfg[p].uid # NoUid
      /\ ByUid[p] = First(Exact(p, Below(ByUid, p)))
  BY <1>1 DEF UidClaim
<1>3. Exact(p, Below(ByUid, p)) \in SUBSET Indices
  BY DEF Exact
<1>4. ByUid[p] \in Exact(p, Below(ByUid, p))
  BY <1>2, <1>3, FirstIs
<1> QED BY <1>2, <1>4 DEF Exact, Below

LEMMA Claims ==
    ASSUME Resolvable, NEW p \in Ports, PortPad[p] # NoPad
    PROVE  /\ PortPad[p] \in Indices
           /\ \/ ByUid[p] = PortPad[p]
              \/ /\ ByUid[p] = NoPad
                 /\ \A q \in Ports : ByUid[q] # PortPad[p]
                 /\ \A q \in 0 .. p - 1 : PortPad[q] # PortPad[p]
<1>1. PortPad[p] = GuidClaim(p, Below(PortPad, p))
  BY PortPadSolved
<1>2. CASE ByUid[p] # NoPad
  BY <1>1, <1>2, ExactClaims DEF GuidClaim
<1>3. CASE ByUid[p] = NoPad
  <2>1. PortPad[p] = First(Similar(p, Below(PortPad, p)))
    BY <1>1, <1>3 DEF GuidClaim
  <2>2. Similar(p, Below(PortPad, p)) \in SUBSET Indices
    BY DEF Similar
  <2>3. PortPad[p] \in Similar(p, Below(PortPad, p))
    BY <2>1, <2>2, FirstIs
  <2> QED BY <1>3, <2>3 DEF Similar, Below
<1> QED BY <1>2, <1>3

\* No pad is claimed twice.
LEMMA ClaimsDiffer ==
    ASSUME Resolvable, NEW p \in Ports, NEW q \in Ports, p # q, PortPad[p] # NoPad
    PROVE  PortPad[p] # PortPad[q]
<1> SUFFICES ASSUME PortPad[p] = PortPad[q] PROVE FALSE
  OBVIOUS
<1>1. ASSUME NEW a \in Ports, NEW b \in Ports, a < b, PortPad[a] = PortPad[b], PortPad[a] # NoPad
      PROVE  FALSE
  <2>1. a \in 0 .. b - 1
    BY <1>1 DEF Ports
  <2> QED BY <1>1, <2>1, Claims, ExactClaims
<1>2. p < q \/ q < p
  BY DEF Ports
<1> QED BY <1>1, <1>2

LEMMA UnclaimedIs ==
    ASSUME Resolvable, Unclaimed # NoPad
    PROVE  Unclaimed \in Indices /\ \A p \in Ports : PortPad[p] # Unclaimed
  BY FirstIs DEF Unclaimed, Claimed

LEMMA SameClaims ==
    ASSUME UNCHANGED <<g_pads, g_cfg>>
    PROVE  PortPad' = PortPad
  BY DEF PortPad, ByUid, Indices, First, Wants

-----------------------------------------------------------------------------
(* What holds between the steps of the main thread.                        *)

\* A handle is tracked once: on_controller_added returns early for one it knows.
HandlesUnique ==
    \A i, j \in 1 .. Len(g_pads) : g_pads[i].id = g_pads[j].id => i = j

\* The ports published so far show the pads resolved in this frame.
Sampled ==
    /\ mainAt = "sample" => \A p \in 0 .. port - 1 : g_port_state[p] = Id(PortPad[p])
    /\ mainAt = "rumble" => /\ \A p \in Ports : g_port_state[p] = Id(PortPad[p])
                            /\ g_auto_pad_state = AutoPad

PadsInv == TypeOK /\ HandlesUnique /\ UidsUnique /\ Sampled

LEMMA CanResolve == TypeOK => Resolvable
  BY DEF TypeOK, Resolvable

LEMMA HandlesAre == TypeOK => DOMAIN padOf = 1 .. Len(padOf) /\ DOMAIN padOf \subseteq Handles
  BY DEF TypeOK, Handles

LEMMA PadIs ==
    ASSUME TypeOK
    PROVE  g_pads \in Seq(OpenPad) /\ \A i \in 1 .. Len(g_pads) : g_pads[i] \in OpenPad
<1>1. g_pads \in Seq(OpenPad)
  BY DEF TypeOK, OpenPad
<1> QED BY <1>1, ElementOfSeq

LEMMA IdIs ==
    ASSUME TypeOK, NEW i \in Indices
    PROVE  i \in 1 .. Len(g_pads) /\ Id(i) = g_pads[i].id /\ Id(i) \in Handles /\ Id(i) # NoHandle
<1>1. i \in 1 .. Len(g_pads) /\ i # NoPad
  BY DEF Indices, NoPad, TypeOK
<1>2. g_pads[i].id \in DOMAIN padOf
  BY <1>1, PadIs DEF OpenPad
<1> QED BY <1>1, <1>2, HandlesAre DEF Id, Handles, NoHandle

LEMMA IdNone == Id(NoPad) = NoHandle
  BY DEF Id

\* Two places of the list that show one handle are one place.
LEMMA IdsDiffer ==
    ASSUME TypeOK, HandlesUnique, NEW i \in Indices, NEW j \in Indices, Id(i) = Id(j)
    PROVE  i = j
  BY IdIs DEF HandlesUnique

LEMMA AutoIs ==
    ASSUME TypeOK, AutoPad # NoHandle
    PROVE  Unclaimed \in Indices /\ AutoPad = Id(Unclaimed)
           /\ \A p \in Ports : PortPad[p] # Unclaimed
<1>1. AutoPad = Id(Unclaimed)
  BY DEF AutoPad
<1>2. Unclaimed # NoPad
  BY <1>1, IdNone
<1> QED BY <1>1, <1>2, CanResolve, UnclaimedIs

\* Claims that differ publish handles that differ.
LEMMA PublishedOnce == PadsInv => OnePadOnePort
<1> SUFFICES ASSUME PadsInv, Published PROVE OnePadOnePort
  BY DEF OnePadOnePort
<1>1. /\ TypeOK /\ HandlesUnique /\ Resolvable /\ g_auto_pad_state = AutoPad
      /\ \A p \in Ports : g_port_state[p] = Id(PortPad[p])
  BY CanResolve DEF PadsInv, Sampled, Published
<1>2. \A p \in Ports : Id(PortPad[p]) # NoHandle => PortPad[p] # NoPad /\ PortPad[p] \in Indices
  BY <1>1, IdNone, Claims
<1>3. ASSUME NEW p \in Ports, NEW q \in Ports, p # q, Id(PortPad[p]) # NoHandle
      PROVE  Id(PortPad[p]) # Id(PortPad[q])
  <2>1. PortPad[p] # PortPad[q]
    BY <1>1, <1>2, <1>3, ClaimsDiffer
  <2> QED BY <1>1, <1>2, <1>3, <2>1, IdsDiffer
<1>4. ASSUME AutoPad # NoHandle, NEW p \in Ports PROVE Id(PortPad[p]) # AutoPad
  BY <1>1, <1>2, <1>4, AutoIs, IdsDiffer
<1> QED BY <1>1, <1>3, <1>4 DEF OnePadOnePort

\* The first pass cannot miss a pad whose uid no lower port asks for, and finds no other
\* with that uid.
LEMMA PublishedExact == PadsInv => ExactUidWins
<1> SUFFICES ASSUME PadsInv, Published, NEW p \in Ports, NEW i \in Indices,
                    Wants(p), g_cfg[p].uid # NoUid, g_pads[i].uid = g_cfg[p].uid,
                    \A q \in 0 .. p - 1 : ~(Wants(q) /\ g_cfg[q].uid = g_cfg[p].uid)
             PROVE  g_port_state[p] = g_pads[i].id
  BY DEF ExactUidWins
<1>1. TypeOK /\ UidsUnique /\ Resolvable /\ g_port_state[p] = Id(PortPad[p])
  BY CanResolve DEF PadsInv, Sampled, Published
<1>2. ASSUME NEW q \in 0 .. p - 1 PROVE ByUid[q] # i
  <2>1. q \in Ports
    BY DEF Ports
  <2>2. i # NoPad
    BY <1>1, LenIsNat DEF NoPad
  <2> QED BY <1>1, <2>1, <2>2, ExactClaims
<1>3. Exact(p, Below(ByUid, p)) \in SUBSET Indices /\ i \in Exact(p, Below(ByUid, p))
  BY <1>2 DEF Exact, Below
<1>4. ByUid[p] = First(Exact(p, Below(ByUid, p)))
  BY <1>1, ByUidSolved DEF UidClaim
<1>5. ByUid[p] \in Indices /\ g_pads[ByUid[p]].uid = g_pads[i].uid
  BY <1>1, <1>3, <1>4, FirstIs DEF Exact
<1>6. ByUid[p] = i
  BY <1>1, <1>5, IdIs DEF UidsUnique
<1>7. PortPad[p] = i
  <2>1. i # NoPad
    BY <1>1, LenIsNat DEF NoPad
  <2> QED BY <1>1, <1>6, <2>1, PortPadSolved DEF GuidClaim
<1> QED BY <1>1, <1>7, IdIs

\* A port the second pass leaves empty has looked at every pad of its GUID.
LEMMA PublishedAll == PadsInv => PadsUsed
<1> SUFFICES ASSUME PadsInv, Published, NEW i \in Indices,
                    \A p \in Ports : g_port_state[p] # g_pads[i].id,
                    NEW p \in Ports, Wants(p), g_cfg[p].guid = g_pads[i].uid.guid
             PROVE  g_port_state[p] # NoHandle
  BY DEF PadsUsed
<1>1. TypeOK /\ Resolvable /\ \A q \in Ports : g_port_state[q] = Id(PortPad[q])
  BY CanResolve DEF PadsInv, Sampled, Published
<1>2. \A q \in Ports : PortPad[q] # i
  BY <1>1, IdIs
<1>3. \A q \in Ports : ByUid[q] # i
  <2> SUFFICES ASSUME NEW q \in Ports, ByUid[q] = i PROVE FALSE
    OBVIOUS
  <2>1. i # NoPad
    BY <1>1, LenIsNat DEF NoPad
  <2> QED BY <1>1, <1>2, <2>1, PortPadSolved DEF GuidClaim
<1>4. PortPad[p] # NoPad
  <2>1. CASE ByUid[p] # NoPad
    BY <1>1, <2>1, PortPadSolved DEF GuidClaim
  <2>2. CASE ByUid[p] = NoPad
    <3>1. PortPad[p] = First(Similar(p, Below(PortPad, p)))
      BY <1>1, <2>2, PortPadSolved DEF GuidClaim
    <3>2. Similar(p, Below(PortPad, p)) \in SUBSET Indices
      BY DEF Similar
    <3>3. i \in Similar(p, Below(PortPad, p))
      <4>1. \A q \in 0 .. p - 1 : q \in Ports
        BY DEF Ports
      <4>2. i \notin Below(PortPad, p)
        BY <1>2, <4>1 DEF Below
      <4> QED BY <1>3, <4>2 DEF Similar
    <3>4. PortPad[p] \in Indices
      BY <1>1, <3>1, <3>2, <3>3, FirstIs
    <3> QED BY <1>1, <3>4, LenIsNat DEF NoPad
  <2> QED BY <2>1, <2>2
<1>5. PortPad[p] \in Indices
  BY <1>1, <1>4, Claims
<1> QED BY <1>1, <1>5, IdIs

-----------------------------------------------------------------------------
(* The steps.                                                              *)

SdlEvent == [kind : {"added", "removed"}, id : DOMAIN padOf]

LEMMA HeadIs ==
    ASSUME TypeOK, NEW kind, Event(kind)
    PROVE  Head(events).id \in DOMAIN padOf /\ Tail(events) \in Seq(SdlEvent)
<1>1. events \in Seq(SdlEvent) /\ events # <<>>
  BY DEF TypeOK, SdlEvent, Event
<1>2. Head(events) \in SdlEvent /\ Tail(events) \in Seq(SdlEvent)
  BY <1>1, HeadTailProperties
<1> QED BY <1>2 DEF SdlEvent

\* What is left after SDL withdrew the announcements of a pad.
LEMMA WithoutIs == ASSUME TypeOK, NEW h PROVE Without(h) \in Seq(SdlEvent)
<1> DEFINE kept == {i \in 1 .. Len(events) : events[i].id # h}
           at == [n \in 1 .. Cardinality(kept) |-> CHOOSE i \in kept : Rank(kept, i) = n - 1]
<1>1. events \in Seq(SdlEvent) /\ Len(events) \in Nat
  BY DEF TypeOK, SdlEvent
<1>2. kept \in SUBSET Nat /\ IsFiniteSet(kept) /\ Cardinality(kept) \in Nat
  <2>1. IsFiniteSet(1 .. Len(events))
    BY <1>1, FS_Interval
  <2>2. kept \in SUBSET (1 .. Len(events)) /\ kept \in SUBSET Nat
    BY <1>1
  <2> HIDE DEF kept
  <2> QED BY <2>1, <2>2, FS_Subset, FS_CardinalityType
<1>3. \A n \in 1 .. Cardinality(kept) : at[n] \in kept
  <2> SUFFICES ASSUME NEW n \in 1 .. Cardinality(kept) PROVE at[n] \in kept
    OBVIOUS
  <2>1. n - 1 \in Nat /\ n - 1 < Cardinality(kept)
    BY <1>2
  <2> HIDE DEF kept
  <2>2. \E i \in kept : Rank(kept, i) = n - 1
    BY <1>2, <2>1, RanksAreDense DEF Rank
  <2> QED BY <2>2
<1>4. \A n \in 1 .. Cardinality(kept) : events[at[n]] \in SdlEvent
  BY <1>1, <1>3, ElementOfSeq
<1>5. Without(h) = [n \in 1 .. Cardinality(kept) |-> events[at[n]]]
  BY DEF Without
<1> HIDE DEF kept, at
<1> QED BY <1>2, <1>4, <1>5

LEMMA InitPads == Init => PadsInv
<1> SUFFICES ASSUME Init PROVE PadsInv
  OBVIOUS
<1>1. TypeOK
  <2>1. /\ padOf = <<>> /\ g_pads = <<>> /\ events = <<>> /\ motor = {} /\ connected = {}
        /\ g_cfg \in Configs /\ failures = 0 /\ mainAt = "events" /\ port = 0
    BY DEF Init
  <2>2. /\ g_port_state \in [Ports -> Handles \union {NoHandle}]
        /\ g_auto_pad_state \in Handles \union {NoHandle}
        /\ g_rumble_want \in [Ports -> BOOLEAN]
        /\ last_on \in [1 .. kMaxClaims -> BOOLEAN]
    BY DEF Init
  <2>3. /\ padOf \in Seq(Pads) /\ Len(padOf) = 0
        /\ events \in Seq([kind : {"added", "removed"}, id : DOMAIN padOf])
        /\ g_pads \in Seq([id : DOMAIN padOf, uid : Uids])
    BY <2>1
  <2> QED BY <2>1, <2>2, <2>3 DEF TypeOK
<1>2. g_pads = <<>> /\ mainAt = "events"
  BY DEF Init
<1>3. Len(g_pads) = 0
  BY <1>2
<1> QED BY <1>1, <1>2, <1>3 DEF PadsInv, HandlesUnique, UidsUnique, Sampled

LEMMA PlugKeeps ==
    ASSUME PadsInv, NEW pad \in Pads, NEW times \in 1 .. 2, Plug(pad, times)
    PROVE  PadsInv'
<1>1. TypeOK /\ mainAt' = "events" /\ g_pads' = g_pads
  BY DEF PadsInv, Plug
<1>2. /\ padOf' \in Seq(Pads) /\ Len(padOf') = Len(padOf) + 1 /\ Len(padOf') <= MaxPlugs
      /\ DOMAIN padOf' = 1 .. Len(padOf') /\ DOMAIN padOf = 1 .. Len(padOf)
  BY <1>1 DEF TypeOK, Plug
<1>3. DOMAIN padOf \subseteq DOMAIN padOf' /\ Len(padOf) + 1 \in DOMAIN padOf'
  BY <1>1, <1>2 DEF TypeOK
<1>4. g_pads' \in Seq(OpenPad')
  <2>1. OpenPad \subseteq OpenPad'
    BY <1>3 DEF OpenPad
  <2> QED BY <1>1, <2>1, PadIs, SeqMonotonic
<1>5. events' \in Seq(SdlEvent')
  <2> DEFINE new == [i \in 1 .. times |-> [kind |-> "added", id |-> Len(padOf) + 1]]
  <2>1. SdlEvent \subseteq SdlEvent'
    BY <1>3 DEF SdlEvent
  <2>2. events \in Seq(SdlEvent')
    BY <1>1, <2>1, SeqMonotonic DEF TypeOK, SdlEvent
  <2>3. [kind |-> "added", id |-> Len(padOf) + 1] \in SdlEvent'
    BY <1>3 DEF SdlEvent
  <2>4. new \in Seq(SdlEvent')
    BY <2>3
  <2>5. events' = events \o new
    BY DEF Plug
  <2> HIDE DEF new
  <2> QED BY <2>2, <2>4, <2>5, ConcatProperties
<1>6. connected' \subseteq DOMAIN padOf'
  BY <1>1, <1>3 DEF TypeOK, Plug
<1>7. TypeOK'
  BY <1>1, <1>2, <1>4, <1>5, <1>6
     DEF TypeOK, Plug, OpenPad, SdlEvent, states, rumble, Tracked
<1> QED BY <1>1, <1>7 DEF PadsInv, HandlesUnique, UidsUnique, Sampled

LEMMA UnplugKeeps == ASSUME PadsInv, NEW h \in connected, Unplug(h) PROVE PadsInv'
<1>1. TypeOK /\ mainAt' = "events" /\ g_pads' = g_pads /\ padOf' = padOf
  BY DEF PadsInv, Unplug
<1>2. events' \in Seq(SdlEvent)
  <2> DEFINE new == IF \E i \in 1 .. Len(g_pads) : g_pads[i].id = h
                    THEN <<[kind |-> "removed", id |-> h]>> ELSE <<>>
  <2>1. h \in DOMAIN padOf
    BY <1>1 DEF TypeOK
  <2>2. [kind |-> "removed", id |-> h] \in SdlEvent
    BY <2>1 DEF SdlEvent
  <2>3. new \in Seq(SdlEvent)
    BY <2>2
  <2>4. events' = Without(h) \o new
    BY DEF Unplug
  <2> HIDE DEF new
  <2> QED BY <1>1, <2>3, <2>4, WithoutIs, ConcatProperties
<1>3. TypeOK'
  BY <1>1, <1>2 DEF TypeOK, Unplug, SdlEvent, states, rumble, Tracked
<1> QED BY <1>1, <1>3 DEF PadsInv, HandlesUnique, UidsUnique, Sampled

LEMMA OpenFailsKeeps == ASSUME PadsInv, OpenFails PROVE PadsInv'
<1>1. TypeOK /\ mainAt' = "events" /\ UNCHANGED <<padOf, connected, g_cfg, g_pads, states, rumble, port>>
  BY DEF PadsInv, OpenFails, Event
<1>2. events' \in Seq(SdlEvent) /\ failures' \in 0 .. MaxFailures
  BY <1>1, HeadIs DEF OpenFails, TypeOK
<1>3. TypeOK'
  BY <1>1, <1>2 DEF TypeOK, SdlEvent, states, rumble, Tracked
<1> QED BY <1>1, <1>3 DEF PadsInv, HandlesUnique, UidsUnique, Sampled

\* A new pad has a handle and a uid of its own.
LEMMA OnAddedKeeps == ASSUME PadsInv, OnAdded PROVE PadsInv'
<1> DEFINE h == Head(events).id
           new == [id |-> h, uid |-> NewUid(padOf[h])]
<1>1. TypeOK /\ mainAt' = "events" /\ UNCHANGED <<world, g_cfg, states, rumble, port>>
      /\ HandlesUnique /\ UidsUnique
  BY DEF PadsInv, OnAdded, Event
<1>2. h \in DOMAIN padOf /\ events' \in Seq(SdlEvent)
  BY <1>1, HeadIs DEF OnAdded
<1>3. CASE Tracked(h)
  <2>1. g_pads' = g_pads
    BY <1>3 DEF OnAdded
  <2>2. TypeOK'
    BY <1>1, <1>2, <2>1 DEF TypeOK, SdlEvent, world, states, rumble, Tracked
  <2> QED BY <1>1, <2>1, <2>2 DEF PadsInv, HandlesUnique, UidsUnique, Sampled
<1>4. CASE ~Tracked(h)
  <2>1. g_pads \in Seq(OpenPad) /\ \A i \in 1 .. Len(g_pads) : g_pads[i] \in OpenPad
    BY <1>1, PadIs
  <2>2. padOf[h] \in Pads
    BY <1>1, <1>2 DEF TypeOK
  <2>3. ~UidTaken(NewUid(padOf[h])) /\ NewUid(padOf[h]) \in Uids
    BY <2>1, <2>2, NewUidFree
  <2>4. new \in OpenPad /\ new.id = h /\ ~UidTaken(new.uid)
    BY <1>2, <2>3 DEF OpenPad
  <2>5. g_pads' = Append(g_pads, new)
    BY <1>4 DEF OnAdded
  <2> HIDE DEF new, h
  <2>6. /\ g_pads' \in Seq(OpenPad)
        /\ Len(g_pads) \in Nat /\ Len(g_pads') = Len(g_pads) + 1
        /\ \A i \in 1 .. Len(g_pads) : g_pads'[i] = g_pads[i]
        /\ g_pads'[Len(g_pads) + 1] = new
    BY <2>1, <2>4, <2>5
  <2>7. ASSUME NEW i \in 1 .. Len(g_pads'), NEW j \in 1 .. Len(g_pads')
        PROVE  /\ g_pads'[i].id = g_pads'[j].id => i = j
               /\ g_pads'[i].uid = g_pads'[j].uid => i = j
    <3>1. i \in 1 .. Len(g_pads) \/ i = Len(g_pads) + 1
      BY <2>6
    <3>2. j \in 1 .. Len(g_pads) \/ j = Len(g_pads) + 1
      BY <2>6
    <3>3. \A k \in 1 .. Len(g_pads) : g_pads[k].id # h /\ g_pads[k].uid # new.uid
      BY <1>4, <2>4 DEF Tracked, UidTaken
    <3> QED BY <1>1, <2>4, <2>6, <3>1, <3>2, <3>3 DEF HandlesUnique, UidsUnique
  <2>8. \A k \in motor' : Tracked(k)'
    <3> SUFFICES ASSUME NEW k \in motor PROVE Tracked(k)'
      BY <1>1 DEF rumble
    <3>1. PICK i \in 1 .. Len(g_pads) : g_pads[i].id = k
      BY <1>1 DEF TypeOK, Tracked
    <3>2. i \in 1 .. Len(g_pads') /\ g_pads'[i].id = k
      BY <2>6, <3>1
    <3> QED BY <3>2 DEF Tracked
  <2>9. TypeOK'
    BY <1>1, <1>2, <2>6, <2>8 DEF TypeOK, SdlEvent, OpenPad, world, states, rumble
  <2> QED BY <1>1, <2>7, <2>9 DEF PadsInv, HandlesUnique, UidsUnique, Sampled
<1> QED BY <1>3, <1>4

\* The pads behind the one that left keep their handles and uids, one index lower.
LEMMA OnRemovedKeeps == ASSUME PadsInv, OnRemoved PROVE PadsInv'
<1> DEFINE h == Head(events).id
<1>1. TypeOK /\ mainAt' = "events" /\ UNCHANGED <<world, g_cfg, states, g_rumble_want, last_on, port>>
      /\ HandlesUnique /\ UidsUnique /\ motor' = motor \ {h}
  BY DEF PadsInv, OnRemoved, Event
<1>2. events' \in Seq(SdlEvent)
  BY <1>1, HeadIs DEF OnRemoved
<1>3. g_pads \in Seq(OpenPad) /\ Len(g_pads) \in Nat
      /\ \A i \in 1 .. Len(g_pads) : g_pads[i] \in OpenPad
  BY <1>1, PadIs
<1>4. PICK i \in 1 .. Len(g_pads) : g_pads[i].id = h /\ g_pads' = Erase(g_pads, i)
  BY DEF OnRemoved
<1>5. \A j \in 1 .. Len(g_pads) - 1 : (IF j < i THEN g_pads[j] ELSE g_pads[j + 1]) \in OpenPad
  BY <1>3
<1>6. /\ g_pads' \in Seq(OpenPad)
      /\ Len(g_pads') = Len(g_pads) - 1
      /\ \A j \in 1 .. Len(g_pads) - 1 :
            g_pads'[j] = IF j < i THEN g_pads[j] ELSE g_pads[j + 1]
  BY <1>3, <1>4, <1>5 DEF Erase
<1>7. HandlesUnique' /\ UidsUnique'
  <2> DEFINE from(j) == IF j < i THEN j ELSE j + 1
  <2>1. \A j \in 1 .. Len(g_pads') : from(j) \in 1 .. Len(g_pads) /\ g_pads'[j] = g_pads[from(j)]
    BY <1>3, <1>6
  <2>2. \A j, k \in 1 .. Len(g_pads') : from(j) = from(k) => j = k
    BY <1>3, <1>6
  <2> HIDE DEF from
  <2>3. ASSUME NEW j \in 1 .. Len(g_pads'), NEW k \in 1 .. Len(g_pads'),
               \/ g_pads'[j].id = g_pads'[k].id \/ g_pads'[j].uid = g_pads'[k].uid
        PROVE  j = k
    <3>1. /\ from(j) \in 1 .. Len(g_pads) /\ g_pads'[j] = g_pads[from(j)]
          /\ from(k) \in 1 .. Len(g_pads) /\ g_pads'[k] = g_pads[from(k)]
      BY <2>1
    <3>2. \A m, n \in 1 .. Len(g_pads) :
             g_pads[m].id = g_pads[n].id \/ g_pads[m].uid = g_pads[n].uid => m = n
      BY <1>1 DEF HandlesUnique, UidsUnique
    <3>3. from(j) = from(k)
      BY <2>3, <3>1, <3>2
    <3> QED BY <2>2, <3>3
  <2> QED BY <2>3 DEF HandlesUnique, UidsUnique
<1>8. ASSUME NEW k \in motor \ {h} PROVE Tracked(k)'
  <2>1. PICK j \in 1 .. Len(g_pads) : g_pads[j].id = k
    BY <1>1, <1>8 DEF TypeOK, Tracked
  <2>2. j # i
    BY <1>4, <1>8, <2>1
  <2>3. CASE j < i
    <3>1. j \in 1 .. Len(g_pads) - 1
      BY <1>3, <2>3
    <3>2. g_pads'[j] = g_pads[j]
      BY <1>6, <2>3, <3>1
    <3> QED BY <1>6, <2>1, <3>1, <3>2 DEF Tracked
  <2>4. CASE j > i
    <3>1. j - 1 \in 1 .. Len(g_pads) - 1 /\ ~(j - 1 < i) /\ (j - 1) + 1 = j
      BY <1>3, <2>4
    <3>2. g_pads'[j - 1] = g_pads[j]
      BY <1>6, <3>1
    <3> QED BY <1>6, <2>1, <3>1, <3>2 DEF Tracked
  <2> QED BY <2>2, <2>3, <2>4
<1>9. TypeOK'
  BY <1>1, <1>2, <1>6, <1>8 DEF TypeOK, SdlEvent, OpenPad, world, states
<1> QED BY <1>1, <1>7, <1>9 DEF PadsInv, Sampled

LEMMA EventsDoneKeeps == ASSUME PadsInv, EventsDone PROVE PadsInv'
<1>1. TypeOK'
  BY DEF PadsInv, EventsDone, TypeOK, world, states, rumble, Tracked
<1> QED BY <1>1 DEF PadsInv, EventsDone, HandlesUnique, UidsUnique, Sampled

LEMMA PortPadIs ==
    ASSUME TypeOK, NEW p \in Ports
    PROVE  Id(PortPad[p]) \in Handles \union {NoHandle}
<1>1. PortPad[p] \in Indices \union {NoPad}
  BY CanResolve, PortPadSolved
<1> QED BY <1>1, IdIs, IdNone

\* A port's word is stored between two looks at the same pads.
LEMMA PortKeeps == ASSUME PadsInv, SamplePort PROVE PadsInv'
<1>1. TypeOK /\ mainAt = "sample" /\ mainAt' = "sample" /\ port < NumPorts /\ port' = port + 1
      /\ UNCHANGED <<world, events, g_cfg, g_pads, g_auto_pad_state, rumble>>
      /\ g_port_state' = [g_port_state EXCEPT ![port] = Id(PortPad[port])]
  BY DEF PadsInv, SamplePort
<1>2. port \in Ports
  BY <1>1 DEF TypeOK, Ports
<1>3. g_port_state' \in [Ports -> Handles \union {NoHandle}]
  BY <1>1, <1>2, PortPadIs DEF TypeOK
<1>4. port' \in 0 .. NumPorts
  BY <1>1 DEF TypeOK
<1>5. TypeOK'
  BY <1>1, <1>3, <1>4 DEF TypeOK, world, rumble, Tracked
<1>6. PortPad' = PortPad /\ \A i : Id(i)' = Id(i)
  BY <1>1, SameClaims DEF Id
<1>7. ASSUME NEW p \in 0 .. port' - 1 PROVE g_port_state'[p] = Id(PortPad[p])
  <2>1. p \in Ports /\ (p = port \/ p \in 0 .. port - 1)
    BY <1>1, <1>2 DEF Ports
  <2> QED BY <1>1, <1>2, <2>1 DEF PadsInv, Sampled, TypeOK
<1>8. \A p \in 0 .. port' - 1 : g_port_state'[p] = Id(PortPad[p])'
  BY <1>1, <1>6, <1>7 DEF Id
<1> QED BY <1>1, <1>5, <1>8 DEF PadsInv, HandlesUnique, UidsUnique, Sampled

LEMMA SampleAutoKeeps == ASSUME PadsInv, SampleAuto PROVE PadsInv'
<1>1. TypeOK /\ mainAt = "sample" /\ mainAt' = "rumble" /\ port = NumPorts /\ port' = 0
      /\ UNCHANGED <<world, events, g_cfg, g_pads, g_port_state, rumble>>
      /\ g_auto_pad_state' = AutoPad
  BY DEF PadsInv, SampleAuto
<1>2. AutoPad \in Handles \union {NoHandle}
  <2>1. CASE AutoPad = NoHandle
    BY <2>1
  <2>2. CASE AutoPad # NoHandle
    BY <1>1, <2>2, AutoIs, IdIs
  <2> QED BY <2>1, <2>2
<1>3. TypeOK'
  BY <1>1, <1>2 DEF TypeOK, world, rumble, Tracked
<1>4. PortPad' = PortPad
  BY <1>1, SameClaims
<1>5. AutoPad' = AutoPad
  BY <1>1, <1>4 DEF AutoPad, Unclaimed, Claimed, Indices, Id, First
<1>6. \A p \in Ports : g_port_state'[p] = Id(PortPad[p])'
  BY <1>1, <1>4 DEF PadsInv, Sampled, Id, Ports
<1> QED BY <1>1, <1>3, <1>5, <1>6 DEF PadsInv, HandlesUnique, UidsUnique, Sampled

\* Steps of the game thread leave the pads and what is published alone.
LEMMA Idle ==
    ASSUME PadsInv, TypeOK', UNCHANGED <<g_pads, g_cfg, states, mainAt, port>>
    PROVE  PadsInv'
<1>1. PortPad' = PortPad
  BY SameClaims
<1>2. AutoPad' = AutoPad
  BY <1>1 DEF AutoPad, Unclaimed, Claimed, Indices, Id, First
<1>3. Sampled'
  BY <1>1, <1>2 DEF PadsInv, Sampled, Id, Ports, states
<1> QED BY <1>3 DEF PadsInv, HandlesUnique, UidsUnique

LEMMA SetRumbleKeeps ==
    ASSUME PadsInv, NEW p \in RumblePorts, NEW on \in BOOLEAN, SetRumble(p, on)
    PROVE  PadsInv'
<1>1. TypeOK /\ UNCHANGED <<world, events, g_cfg, g_pads, states, last_on, motor, mainAt, port>>
  BY DEF PadsInv, SetRumble
<1>2. g_rumble_want' \in [Ports -> BOOLEAN]
  BY <1>1 DEF SetRumble, TypeOK
<1>3. TypeOK'
  BY <1>1, <1>2 DEF TypeOK, world, states, Tracked
<1> QED BY <1>1, <1>3, Idle

\* Only open pads are told to run.
LEMMA FlushRumbleKeeps == ASSUME PadsInv, FlushRumble PROVE PadsInv'
<1> DEFINE sent == {i \in Indices : Feeds(i) # {} /\ WantOn(i) # last_on[i]}
<1>1. TypeOK /\ mainAt' = "events"
      /\ UNCHANGED <<world, events, g_cfg, g_pads, states, g_rumble_want, port>>
      /\ last_on' = [i \in DOMAIN last_on |-> IF i \in Indices THEN WantOn(i) ELSE last_on[i]]
      /\ motor' = (motor \ {Id(i) : i \in sent}) \union {Id(i) : i \in {j \in sent : WantOn(j)}}
  BY DEF PadsInv, FlushRumble
<1>2. last_on' \in [1 .. kMaxClaims -> BOOLEAN]
  <2>1. \A i : WantOn(i) \in BOOLEAN
    BY DEF WantOn
  <2>2. DOMAIN last_on = 1 .. kMaxClaims /\ \A i \in 1 .. kMaxClaims : last_on[i] \in BOOLEAN
    BY <1>1 DEF TypeOK
  <2> QED BY <1>1, <2>1, <2>2
<1>3. ASSUME NEW k \in motor' PROVE Tracked(k)'
  <2>1. k \in motor \/ \E i \in Indices : k = Id(i)
    BY <1>1, <1>3
  <2>2. Tracked(k)
    BY <1>1, <2>1, IdIs DEF TypeOK, Tracked
  <2> QED BY <1>1, <2>2 DEF Tracked
<1>4. TypeOK'
  BY <1>1, <1>2, <1>3 DEF TypeOK, world, states
<1> QED BY <1>1, <1>4 DEF PadsInv, HandlesUnique, UidsUnique, Sampled

LEMMA StepKeeps == PadsInv /\ [Next]_vars => PadsInv'
<1> SUFFICES ASSUME PadsInv, [Next]_vars PROVE PadsInv'
  OBVIOUS
<1>1. CASE Frame
  BY <1>1, OpenFailsKeeps, OnAddedKeeps, OnRemovedKeeps, EventsDoneKeeps, PortKeeps,
     SampleAutoKeeps, FlushRumbleKeeps DEF Frame
<1>2. ASSUME NEW pad \in Pads, NEW times \in 1 .. 2, Plug(pad, times) PROVE PadsInv'
  BY <1>2, PlugKeeps
<1>3. ASSUME NEW h \in connected, Unplug(h) PROVE PadsInv'
  BY <1>3, UnplugKeeps
<1>4. ASSUME NEW p \in RumblePorts, NEW on \in BOOLEAN, SetRumble(p, on) PROVE PadsInv'
  BY <1>4, SetRumbleKeeps
<1>5. CASE UNCHANGED vars
  <2>1. UNCHANGED <<padOf, connected, failures, events, g_cfg, g_pads, g_port_state, g_auto_pad_state,
                    g_rumble_want, last_on, motor, mainAt, port>>
    BY <1>5 DEF vars, world, states, rumble
  <2>2. TypeOK'
    BY <2>1 DEF PadsInv, TypeOK, Tracked
  <2> QED BY <2>1, <2>2, Idle DEF states
<1> QED BY <1>1, <1>2, <1>3, <1>4, <1>5 DEF Next

LEMMA PadsInvariant == Spec => []PadsInv
  BY InitPads, StepKeeps, PTL DEF Spec

-----------------------------------------------------------------------------
(* What the runs check, for every value of the constants.                  *)

\* The table of open pads, the events queued for them and the words published have
\* their types; a motor runs only in an open pad.
THEOREM PadsTypeCorrect == Spec => []TypeOK
<1>1. PadsInv => TypeOK
  BY DEF PadsInv
<1> QED BY <1>1, PadsInvariant, PTL

\* Whatever pads report as serial numbers, and in whatever order they come and go, the
\* pads bar::input has open keep distinct uids.
THEOREM UidsStayUnique == Spec => []UidsUnique
<1>1. PadsInv => UidsUnique
  BY DEF PadsInv
<1> QED BY <1>1, PadsInvariant, PTL

\* resolve_pads never gives one pad to two ports, nor a port's pad to the keyboard.
THEOREM PadsPublishedOnce == Spec => []OnePadOnePort
  BY PublishedOnce, PadsInvariant, PTL

\* The pad a player picked by uid drives his port whenever it is open, however many of its
\* kind there are.
THEOREM PickedPadsWin == Spec => []ExactUidWins
  BY PublishedExact, PadsInvariant, PTL

\* No open pad lies idle while a port that takes its kind has none.
THEOREM PadsStayUsed == Spec => []PadsUsed
  BY PublishedAll, PadsInvariant, PTL
=============================================================================
