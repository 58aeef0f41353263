-------------------------- MODULE RebateChainProofs --------------------------
(***************************************************************************)
(* Proofs about RebateChain for every hierarchy, every setting of rebates, *)
(* every point value and every volume.                                     *)
(***************************************************************************)
EXTENDS RebateChain, SetSums, SequenceTheorems, TLAPS

(* The two ways to look at a manager *)

\* Its level has a rebate: the marks are raised and the excess is its share.
Earns(m) ==
    LET its == setting[m]
    IN  /\ its.kind # "none"
        /\ mark' = Raise(its.kind, its.value)
        /\ Insert(m, Share(its.kind, its.value - mark[its.kind]))
        /\ seen' = seen \cup {m}
        /\ UNCHANGED inputs

PassedBy(m) ==
    /\ setting[m].kind = "none"
    /\ seen' = seen \cup {m}
    /\ UNCHANGED <<inputs, mark, rows, total>>

Looks(m) == Earns(m) \/ PassedBy(m)

LEMMA Raised ==
    ASSUME TypeOK, NEW kind \in Kind, NEW value \in Nat
    PROVE  /\ Raise(kind, value) \in [Kind -> Nat]
           /\ Raise(kind, value)[kind] = IF value > mark[kind] THEN value ELSE mark[kind]
           /\ \A k \in Kind : k # kind => Raise(kind, value)[k] = mark[k]
           /\ \A k \in Kind : mark[k] <= Raise(kind, value)[k]
  BY DEF TypeOK, Raise

LEMMA KindsDiffer ==
    ASSUME NEW kind \in Kind
    PROVE  Other(kind) \in Kind /\ Other(kind) # kind
           /\ \A k \in Kind : k = kind \/ k = Other(kind)
<1>1. \E k \in Kind : k # kind
  BY DEF Kind
<1>2. Other(kind) \in Kind /\ Other(kind) # kind
  BY <1>1 DEF Other
<1> QED
  BY <1>2 DEF Kind

LEMMA SettingType ==
    ASSUME TypeOK, NEW m \in Managers
    PROVE  /\ setting[m].kind \in Kind \cup {"none"}
           /\ setting[m].value \in Nat
<1>1. setting[m] \in Setting
  BY DEF TypeOK
<1>2. CASE setting[m] \in [kind : Kind, value : Values]
  BY <1>2, ChainAssumption
<1>3. CASE setting[m] \in [kind : {"none"}, value : {0}]
  BY <1>3
<1> QED
  BY <1>1, <1>2, <1>3 DEF Setting

LEMMA SelfLooks ==
    ASSUME TypeOK, StartInv, Self
    PROVE  Looks(Trader) /\ left' = left
<1>1. setting[Trader].kind \in Kind \cup {"none"} /\ setting[Trader].value \in Nat
  BY ChainAssumption, SettingType
<1>2. seen = {} /\ mark["fixed"] = 0 /\ mark["point"] = 0
  BY DEF Self, StartInv
<1>3. CASE setting[Trader].kind = "none"
  BY <1>2, <1>3 DEF Self, Looks, PassedBy
<1>4. CASE setting[Trader].kind # "none"
  <2> DEFINE kind  == setting[Trader].kind
             value == setting[Trader].value
  <2>1. kind \in Kind /\ mark[kind] = 0 /\ value - mark[kind] = value
    BY <1>1, <1>2, <1>4 DEF Kind
  <2>2. [mark EXCEPT ![kind] = value] = Raise(kind, value)
    <3>1. value = 0 => [mark EXCEPT ![kind] = value] = mark
      BY <2>1 DEF TypeOK
    <3>2. value # 0 => value > mark[kind]
      BY <1>1, <2>1
    <3>3. ~(0 > mark[kind])
      BY <2>1
    <3> QED
      BY <3>1, <3>2, <3>3 DEF Raise
  <2>3. Earns(Trader)
    BY <1>2, <1>4, <2>1, <2>2 DEF Self, Earns
  <2> QED
    BY <2>3 DEF Self, Looks
<1> QED
  BY <1>3, <1>4

LEMMA LookUpLooks ==
    ASSUME TypeOK, LookUp
    PROVE  Looks(at) /\ at \in Managers /\ left' = left - 1 /\ left > 0
  BY DEF TypeOK, LookUp, MayLookUp, Count, Looks, Earns, PassedBy
-----------------------------------------------------------------------------
(* Shares and what they add up to *)

LEMMA RoundedToCents ==
    ASSUME NEW x \in Nat
    PROVE  LET r == (x + Scale \div 2) \div Scale
           IN  /\ r \in Nat
               /\ x - Scale \div 2 <= Scale * r
               /\ Scale * r <= x + Scale \div 2
  BY DEF Scale

LEMMA WorthIsNat ==
    ASSUME NEW kind \in Kind, NEW value \in Nat
    PROVE  Worth(kind, value) \in Nat
  BY ChainAssumption DEF Worth

\* A share is what it is worth but for half a cent; there is none without excess.
LEMMA ShareBounds ==
    ASSUME TypeOK, NEW kind \in Kind, NEW excess \in Int
    PROVE  /\ Share(kind, excess) \in Nat
           /\ excess <= 0 => Share(kind, excess) = 0
           /\ excess > 0 =>
                 LET x == volume * Worth(kind, excess)
                 IN  /\ x \in Nat
                     /\ x - Scale \div 2 <= Scale * Share(kind, excess)
                     /\ Scale * Share(kind, excess) <= x + Scale \div 2
<1>1. CASE excess <= 0
  BY <1>1 DEF Share
<1>2. CASE excess > 0
  <2> DEFINE x == volume * Worth(kind, excess)
  <2>1. volume \in Nat /\ Worth(kind, excess) \in Nat
    <3>1. excess \in Nat
      BY <1>2
    <3> QED
      BY <3>1, WorthIsNat, ChainAssumption DEF TypeOK
  <2>2. x \in Nat
    BY <2>1
  <2>3. Share(kind, excess) = (x + Scale \div 2) \div Scale
    BY <1>2 DEF Share
  <2> HIDE DEF x
  <2>4. LET r == (x + Scale \div 2) \div Scale
        IN  r \in Nat /\ x - Scale \div 2 <= Scale * r /\ Scale * r <= x + Scale \div 2
    BY <2>2, RoundedToCents
  <2>5. /\ x - Scale \div 2 <= Scale * Share(kind, excess)
        /\ Scale * Share(kind, excess) <= x + Scale \div 2
        /\ Share(kind, excess) \in Nat
    BY <2>3, <2>4
  <2> QED
    BY <1>2, <2>2, <2>5 DEF x
<1> QED
  BY <1>1, <1>2

Cost(marks) == volume * Worth("fixed", marks["fixed"]) + volume * Worth("point", marks["point"])

LEMMA Distributes ==
    ASSUME NEW v \in Nat, NEW p \in Nat, NEW a \in Nat, NEW b \in Nat
    PROVE  v * a - v * b = v * (a - b) /\ v * (p * a) - v * (p * b) = v * (p * (a - b))
  OBVIOUS

\* Raising a mark costs what the excess is worth.
LEMMA CostRaised ==
    ASSUME TypeOK, NEW kind \in Kind, NEW value \in Nat
    PROVE  /\ Cost(mark) \in Nat
           /\ Cost(Raise(kind, value)) =
                 IF value > mark[kind] THEN Cost(mark) + volume * Worth(kind, value - mark[kind])
                 ELSE Cost(mark)
<1> DEFINE f == mark["fixed"]
           p == mark["point"]
<1>1. volume \in Nat /\ PointValue \in Nat /\ f \in Nat /\ p \in Nat
  BY ChainAssumption DEF TypeOK, Kind
<1>2. Cost(mark) = volume * f + volume * (PointValue * p)
  BY DEF Cost, Worth
<1>3. Cost(mark) \in Nat
  BY <1>1, <1>2
<1>4. CASE ~(value > mark[kind])
  BY <1>3, <1>4 DEF Raise
<1>5. CASE value > mark[kind] /\ kind = "fixed"
  <2>1. Cost(Raise(kind, value)) = volume * value + volume * (PointValue * p)
    BY <1>5, Raised DEF Cost, Worth, Kind
  <2>2. Worth(kind, value - mark[kind]) = value - f
    BY <1>5 DEF Worth
  <2>3. volume * value - volume * f = volume * (value - f)
    BY <1>1, Distributes
  <2>4. volume * value \in Int /\ volume * f \in Int /\ volume * (PointValue * p) \in Int
        /\ volume * (value - f) \in Int
    BY <1>1
  <2>5. Cost(Raise(kind, value)) = Cost(mark) + volume * (value - f)
    BY <1>2, <2>1, <2>3, <2>4
  <2> QED
    BY <1>3, <1>5, <2>2, <2>5
<1>6. CASE value > mark[kind] /\ kind = "point"
  <2>1. Cost(Raise(kind, value)) = volume * f + volume * (PointValue * value)
    BY <1>6, Raised DEF Cost, Worth, Kind
  <2>2. Worth(kind, value - mark[kind]) = PointValue * (value - p)
    BY <1>6 DEF Worth
  <2>3. volume * (PointValue * value) - volume * (PointValue * p)
           = volume * (PointValue * (value - p))
    BY <1>1, Distributes
  <2>4. volume * (PointValue * value) \in Int /\ volume * f \in Int
        /\ volume * (PointValue * p) \in Int /\ volume * (PointValue * (value - p)) \in Int
    BY <1>1
  <2>5. Cost(Raise(kind, value)) = Cost(mark) + volume * (PointValue * (value - p))
    BY <1>2, <2>1, <2>3, <2>4
  <2> QED
    BY <1>3, <1>6, <2>2, <2>5
<1> QED
  BY <1>4, <1>5, <1>6 DEF Kind
-----------------------------------------------------------------------------
(* What looking at a manager keeps *)

LEMMA Inserted ==
    ASSUME TypeOK, NEW m \in Managers, NEW rebate \in Nat, Insert(m, rebate)
    PROVE  /\ rows' \in Seq(RebateRow)
           /\ total' \in Nat /\ total' = total + rebate
           /\ \A i \in 1..Len(rows') :
                 \/ i \in 1..Len(rows) /\ rows'[i] = rows[i]
                 \/ rebate > 0 /\ i = Len(rows) + 1 /\ rows'[i].mgr = m
<1>1. total \in Nat /\ rows \in Seq(RebateRow) /\ Len(rows) \in Nat
  BY LenProperties DEF TypeOK
<1>2. total' \in Nat /\ total' = total + rebate
  BY <1>1 DEF Insert
<1>3. CASE rebate > 0
  <2> DEFINE new == [mgr |-> m, rebate |-> rebate]
  <2>1. new \in RebateRow /\ rows' = Append(rows, new)
    BY <1>3 DEF Insert, RebateRow
  <2>2. rows' \in Seq(RebateRow) /\ Len(rows') = Len(rows) + 1
    BY <1>1, <2>1
  <2>3. ASSUME NEW i \in 1..Len(rows')
        PROVE  \/ i \in 1..Len(rows) /\ rows'[i] = rows[i]
               \/ i = Len(rows) + 1 /\ rows'[i] = new
    BY <1>1, <2>1, <2>2
  <2> QED
    BY <1>2, <1>3, <2>2, <2>3
<1>4. CASE ~(rebate > 0)
  BY <1>1, <1>2, <1>4 DEF Insert
<1> QED
  BY <1>3, <1>4

\* Who earns has a rebate of some kind, and a share of what exceeds its mark.
LEMMA Earned ==
    ASSUME TypeOK, NEW m \in Managers, Earns(m)
    PROVE  LET kind  == setting[m].kind
               value == setting[m].value
               share == Share(kind, value - mark[kind])
           IN  /\ kind \in Kind /\ value \in Nat /\ mark[kind] \in Nat
               /\ value - mark[kind] \in Int
               /\ share \in Nat
               /\ share > 0 => value > mark[kind]
               /\ Insert(m, share)
               /\ mark' = Raise(kind, value)
<1> DEFINE kind  == setting[m].kind
           value == setting[m].value
           share == Share(kind, value - mark[kind])
<1>1. kind \in Kind /\ value \in Nat
  BY SettingType DEF Earns
<1>2. mark[kind] \in Nat
  BY <1>1 DEF TypeOK
<1>3. value - mark[kind] \in Int
  BY <1>1, <1>2
<1>4. share \in Nat /\ (value - mark[kind] <= 0 => share = 0)
  BY <1>1, <1>3, ShareBounds
<1>5. share > 0 => value > mark[kind]
  BY <1>1, <1>2, <1>4
<1> QED
  BY <1>1, <1>2, <1>3, <1>4, <1>5 DEF Earns

LEMMA LooksType ==
    ASSUME TypeOK, NEW m \in Managers, Looks(m)
    PROVE  /\ mark' \in [Kind -> Nat]
           /\ rows' \in Seq(RebateRow)
           /\ total' \in Nat
           /\ seen' \subseteq Managers
<1>1. CASE Earns(m)
  <2>1. rows' \in Seq(RebateRow) /\ total' \in Nat
    BY <1>1, Earned, Inserted
  <2> DEFINE kind  == setting[m].kind
             value == setting[m].value
  <2>2. kind \in Kind /\ value \in Nat /\ mark' = Raise(kind, value)
    BY <1>1, Earned
  <2> HIDE DEF kind, value
  <2>3. mark' \in [Kind -> Nat]
    BY <2>2, Raised
  <2> QED
    BY <1>1, <2>1, <2>3 DEF Earns, TypeOK
<1>2. CASE PassedBy(m)
  BY <1>2 DEF PassedBy, TypeOK
<1> QED
  BY <1>1, <1>2 DEF Looks

LEMMA LooksHighest ==
    ASSUME TypeOK, NEW m \in Managers, Looks(m), NEW k \in Kind, Highest(k)
    PROVE  Highest(k)'
<1>1. CASE PassedBy(m)
  <2>1. "none" \notin Kind
    BY DEF Kind
  <2> QED
    BY <1>1, <2>1 DEF PassedBy, Highest, inputs
<1>2. CASE Earns(m)
  <2> DEFINE kind  == setting[m].kind
             value == setting[m].value
  <2>1. kind \in Kind /\ value \in Nat /\ mark[kind] \in Nat /\ mark' = Raise(kind, value)
    BY <1>2, Earned
  <2>2. setting' = setting /\ seen' = seen \cup {m}
    BY <1>2 DEF Earns, inputs
  <2>3. CASE k # kind
    BY <2>1, <2>2, <2>3, Raised DEF Highest
  <2>4. CASE k = kind
    <3>1. mark'[k] = IF value > mark[k] THEN value ELSE mark[k]
      BY <2>1, <2>4, Raised
    <3>2. ASSUME NEW g \in seen, setting[g].kind = k
          PROVE  setting[g].value <= mark'[k]
      <4>1. setting[g].value <= mark[k] /\ setting[g].value \in Nat
        BY <3>2, SettingType DEF Highest, TypeOK
      <4> QED
        BY <2>1, <2>4, <3>1, <4>1
    <3>3. value <= mark'[k]
      BY <2>1, <2>4, <3>1
    <3> QED
      BY <2>1, <2>2, <2>4, <3>1, <3>2, <3>3 DEF Highest
  <2> QED
    BY <2>3, <2>4
<1> QED
  BY <1>1, <1>2 DEF Looks

LEMMA LooksRows ==
    ASSUME TypeOK, NEW m \in Managers, Looks(m),
           RowsInv, OneRowEach, \A k \in Kind : Highest(k)
    PROVE  RowsInv' /\ OneRowEach'
<1>1. CASE PassedBy(m)
  BY <1>1 DEF PassedBy, RowsInv, OneRowEach, inputs
<1>2. CASE Earns(m)
  <2> DEFINE kind  == setting[m].kind
             share == Share(kind, setting[m].value - mark[kind])
             Old(i) == i \in 1..Len(rows) /\ rows'[i] = rows[i]
             New(i) == share > 0 /\ i = Len(rows) + 1 /\ rows'[i].mgr = m
  <2>1. \A i \in 1..Len(rows') : Old(i) \/ New(i)
    BY <1>2, Earned, Inserted
  <2>2. kind \in Kind /\ setting' = setting /\ seen' = seen \cup {m}
    BY <1>2, Earned DEF Earns, inputs
  <2>3. RowsInv'
    BY <2>1, <2>2 DEF RowsInv
  <2>4. ASSUME NEW i \in 1..Len(rows'), NEW j \in 1..Len(rows'), Old(i), New(j)
        PROVE  rows'[i].mgr # rows'[j].mgr
    <3>1. setting[m].value > mark[kind] /\ setting[m].value \in Nat /\ mark[kind] \in Nat
      BY <1>2, <2>4, Earned
    <3>2. m \in seen => setting[m].value <= mark[kind]
      BY <2>2 DEF Highest
    <3>3. rows[i].mgr \in seen
      BY <2>4 DEF RowsInv
    <3> QED
      BY <2>4, <3>1, <3>2, <3>3
  <2>5. OneRowEach'
    <3> SUFFICES ASSUME NEW i \in 1..Len(rows'), NEW j \in 1..Len(rows'),
                        rows'[i].mgr = rows'[j].mgr
                 PROVE  i = j
      BY DEF OneRowEach
    <3>1. CASE Old(i) /\ Old(j)
      BY <3>1 DEF OneRowEach
    <3>2. CASE New(i) /\ New(j)
      BY <3>2
    <3> QED
      BY <2>1, <2>4, <3>1, <3>2
  <2> QED
    BY <2>3, <2>5
<1> QED
  BY <1>1, <1>2 DEF Looks

\* The rows are within half a cent of the cost of the marks for each of n managers.
Within(n) ==
    /\ Cost(mark) - (Scale \div 2) * n <= Scale * total
    /\ Scale * total <= Cost(mark) + (Scale \div 2) * n

LEMMA LooksWithin ==
    ASSUME TypeOK, NEW m \in Managers, Looks(m), NEW n \in Nat, Within(n)
    PROVE  Within(n + 1)'
<1>1. Cost(mark) \in Nat /\ total \in Nat
  <2>1. "fixed" \in Kind /\ 0 \in Nat
    BY DEF Kind
  <2> QED
    BY <2>1, CostRaised DEF TypeOK
<1>2. CASE PassedBy(m)
  <2>1. Cost(mark)' = Cost(mark) /\ total' = total
    BY <1>2 DEF PassedBy, Cost, Worth, inputs
  <2> QED
    BY <1>1, <2>1 DEF Within, Scale
<1>3. CASE Earns(m)
  <2> DEFINE kind   == setting[m].kind
             value  == setting[m].value
             excess == value - mark[kind]
             share  == Share(kind, excess)
             worth  == volume * Worth(kind, excess)
  <2>1. /\ kind \in Kind /\ value \in Nat /\ mark[kind] \in Nat /\ excess \in Int
        /\ share \in Nat /\ mark' = Raise(kind, value) /\ Insert(m, share)
    BY <1>3, Earned
  <2>2. volume' = volume
    BY <1>3 DEF Earns, inputs
  <2>3. total' = total + share
    BY <2>1, Inserted
  <2>4. Cost(mark)' = Cost(Raise(kind, value))
    BY <2>1, <2>2 DEF Cost, Worth
  <2>5. CASE value > mark[kind]
    <3>1. Cost(mark)' = Cost(mark) + worth
      BY <2>1, <2>4, <2>5, CostRaised
    <3>2. /\ worth \in Nat
          /\ worth - Scale \div 2 <= Scale * share
          /\ Scale * share <= worth + Scale \div 2
      <4>1. excess > 0
        BY <2>1, <2>5
      <4> QED
        BY <2>1, <4>1, ShareBounds
    <3> HIDE DEF share, worth
    <3> QED
      BY <1>1, <2>1, <2>3, <3>1, <3>2 DEF Within, Scale
  <2>6. CASE ~(value > mark[kind])
    <3>1. Cost(mark)' = Cost(mark)
      BY <2>1, <2>4, <2>6, CostRaised
    <3>2. share = 0
      <4>1. excess <= 0
        BY <2>1, <2>6
      <4> QED
        BY <2>1, <4>1, ShareBounds
    <3> HIDE DEF share
    <3> QED
      BY <1>1, <2>3, <3>1, <3>2 DEF Within, Scale
  <2> QED
    BY <2>5, <2>6
<1> QED
  BY <1>2, <1>3 DEF Looks
-----------------------------------------------------------------------------
(* The inductive invariant *)

\* TotalIsHighest says that much of the managers looked at: MaxParents - left
\* and the trader.
LEMMA TotalIs ==
    TotalIsHighest <=>
        (pc # "failed" => /\ Highest("fixed") /\ Highest("point")
                          /\ Within(MaxParents - left + 1))
  BY DEF TotalIsHighest, Within, Cost

(* Who was looked at *)

LEMMA ChainSelf ==
    ASSUME TypeOK, StartInv, Self
    PROVE  ChainInv' /\ ChainLookedAt'
<1>1. /\ seen' = {Trader} /\ pc' = "up" /\ at' = parent[Trader] /\ left' = left
      /\ parent' = parent
  BY DEF Self, inputs
<1>2. IsFiniteSet(seen') /\ Cardinality(seen') = 1
  BY <1>1, FS_Singleton
<1>3. Cardinality(seen') = MaxParents - left' + 1
  <2>1. left = MaxParents /\ MaxParents \in Nat
    BY ChainAssumption DEF Self, StartInv
  <2> QED
    BY <1>1, <1>2, <2>1
<1> QED
  BY <1>1, <1>2, <1>3 DEF ChainInv, ChainLookedAt

LEMMA ChainLookUp ==
    ASSUME TypeOK, ChainInv, LookUp
    PROVE  ChainInv' /\ ChainLookedAt'
<1>1. /\ seen' = seen \cup {at} /\ pc = "up" /\ pc' = "up" /\ at' = parent[at]
      /\ left' = left - 1 /\ parent' = parent /\ at # NoManager
  BY DEF LookUp, MayLookUp, Count, inputs
<1>2. /\ IsFiniteSet(seen) /\ Trader \in seen
      /\ \E m \in seen : parent[m] = at
      /\ \A m \in seen : parent[m] \in seen \cup {at}
      /\ ChainIsSeen \/ Cardinality(seen) = MaxParents - left + 1
  BY <1>1 DEF ChainInv
<1>3. IsFiniteSet(seen') /\ Trader \in seen'
  BY <1>1, <1>2, FS_AddElement
<1>4. /\ \E m \in seen' : parent'[m] = at'
      /\ \A m \in seen' : parent'[m] \in seen' \cup {at'}
  BY <1>1, <1>2
<1>5. ChainIsSeen' \/ Cardinality(seen') = MaxParents - left' + 1
  <2>1. CASE at \in seen
    BY <1>1, <1>2, <2>1 DEF ChainIsSeen
  <2>2. CASE at \notin seen
    <3>1. ~ChainIsSeen
      BY <1>1, <1>2, <2>2 DEF ChainIsSeen
    <3>2. Cardinality(seen') = Cardinality(seen) + 1
      BY <1>1, <1>2, <2>2, FS_AddElement
    <3>3. MaxParents \in Nat /\ left \in Nat
      BY ChainAssumption DEF TypeOK
    <3> QED
      BY <1>1, <1>2, <3>1, <3>2, <3>3
  <2> QED
    BY <2>1, <2>2
<1> QED
  BY <1>1, <1>3, <1>4, <1>5 DEF ChainInv, ChainLookedAt

LEMMA ChainStop ==
    ASSUME TypeOK, ChainInv, Stop
    PROVE  ChainInv' /\ ChainLookedAt'
<1>1. /\ pc = "up" /\ pc' = "done" /\ (left = 0 \/ at = NoManager)
      /\ UNCHANGED <<parent, at, left, seen>>
  BY DEF Stop, inputs
<1>2. ChainIsSeen \/ Cardinality(seen) = MaxParents + 1
  <2>1. CASE at = NoManager
    BY <1>1, <2>1 DEF ChainInv, ChainIsSeen
  <2>2. CASE left = 0
    <3>1. MaxParents - left = MaxParents
      BY <2>2, ChainAssumption
    <3> QED
      BY <1>1, <3>1 DEF ChainInv
  <2> QED
    BY <1>1, <2>1, <2>2
<1> QED
  BY <1>1, <1>2 DEF ChainInv, ChainLookedAt, ChainIsSeen

-----------------------------------------------------------------------------
(* The rows and their total *)

LEMMA TotalInserted ==
    ASSUME TypeOK, TotalInv, NEW m \in Managers, NEW rebate \in Nat, Insert(m, rebate)
    PROVE  TotalInv'
<1> DEFINE n == Len(rows)
<1>1. rows \in Seq(RebateRow) /\ n \in Nat /\ DOMAIN rows = 1..n /\ IsFiniteSet(1..n)
  BY LenProperties, FS_Interval DEF TypeOK
<1>2. \A i \in 1..n : rows[i].rebate \in Nat
  <2>1. \A i \in 1..n : rows[i] \in RebateRow
    BY <1>1, ElementOfSeq
  <2>2. \A x \in RebateRow : x.rebate \in Nat
    BY DEF RebateRow
  <2> QED
    BY <2>1, <2>2
<1>3. CASE rebate > 0
  <2> DEFINE new == [mgr |-> m, rebate |-> rebate]
  <2>1. rows' = Append(rows, new) /\ total' = total + rebate
    BY <1>3 DEF Insert
  <2>2. /\ DOMAIN rows' = 1..n \cup {n + 1}
        /\ \A i \in 1..n : rows'[i] = rows[i]
        /\ rows'[n + 1] = new
    <3>1. new \in RebateRow
      BY DEF RebateRow
    <3>2. /\ rows' \in Seq(RebateRow) /\ Len(rows') = n + 1 /\ rows'[n + 1] = new
          /\ \A i \in 1..n : rows'[i] = rows[i]
      BY <1>1, <2>1, <3>1, AppendProperties
    <3>3. DOMAIN rows' = 1..(n + 1)
      BY <3>2, LenProperties
    <3>4. 1..(n + 1) = 1..n \cup {n + 1}
      BY <1>1
    <3> QED
      BY <3>2, <3>3, <3>4
  <2>3. /\ \A i \in 1..n : Rebates[i] \in Int /\ Rebates'[i] = Rebates[i]
        /\ Rebates'[n + 1] = rebate
    BY <1>1, <1>2, <2>2 DEF Rebates
  <2>4. SumFunctionOnSet(Rebates', 1..n) = SumFunctionOnSet(Rebates, 1..n)
    BY <1>1, <2>3, SumSame
  <2>5. SumFunctionOnSet(Rebates', 1..n \cup {n + 1})
           = SumFunctionOnSet(Rebates', 1..n) + Rebates'[n + 1]
    <3>1. n + 1 \notin 1..n
      BY <1>1
    <3>2. \A i \in 1..n \cup {n + 1} : Rebates'[i] \in Int
      BY <2>3
    <3> DEFINE S == 1..n
               x == n + 1
    <3>3. IsFiniteSet(S) /\ x \notin S /\ \A i \in S \cup {x} : Rebates'[i] \in Int
      BY <1>1, <3>1, <3>2
    <3> HIDE DEF S, x
    <3>4. SumFunctionOnSet(Rebates', S \cup {x}) = SumFunctionOnSet(Rebates', S) + Rebates'[x]
      BY <3>3, SumAdd
    <3> QED
      BY <3>4 DEF S, x
  <2>6. total = SumFunctionOnSet(Rebates, 1..n)
    BY <1>1 DEF TotalInv
  <2>7. total' = SumFunctionOnSet(Rebates', 1..n \cup {n + 1})
    BY <2>1, <2>3, <2>4, <2>5, <2>6
  <2> QED
    BY <2>2, <2>7 DEF TotalInv
<1>4. CASE ~(rebate > 0)
  <2>1. rebate = 0 /\ rows' = rows /\ total' = total
    BY <1>4 DEF Insert, TypeOK
  <2> QED
    BY <2>1 DEF TotalInv, Rebates
<1> QED
  BY <1>3, <1>4

\* What is looked at without a row leaves the total as well.
LEMMA TotalLooks ==
    ASSUME TypeOK, TotalInv, NEW m \in Managers, Looks(m)
    PROVE  TotalInv'
<1>1. CASE Earns(m)
  <2> DEFINE kind  == setting[m].kind
             share == Share(kind, setting[m].value - mark[kind])
  <2>1. share \in Nat /\ Insert(m, share)
    BY <1>1, Earned, ShareBounds
  <2> QED
    BY <2>1, TotalInserted
<1>2. CASE PassedBy(m)
  BY <1>2 DEF PassedBy, TotalInv, Rebates
<1> QED
  BY <1>1, <1>2 DEF Looks

-----------------------------------------------------------------------------
LEMMA InitHolds == Init => IInv
<1> SUFFICES ASSUME Init PROVE IInv
  OBVIOUS
<1> USE ChainAssumption DEF Init
<1>1. TypeOK
  BY EmptySeq DEF TypeOK, Kind
<1>2. StartInv /\ RowsInv /\ OneRowEach /\ MixedFails
  BY EmptySeq DEF StartInv, RowsInv, OneRowEach, MixedFails, Kind
<1>3. mark["fixed"] = 0 /\ mark["point"] = 0 /\ volume \in Nat /\ PointValue \in Nat
  BY DEF Kind
<1>4. Highest("fixed") /\ Highest("point")
  BY <1>3 DEF Highest
<1>5. Cost(mark) = 0 /\ total = 0 /\ MaxParents - left + 1 = 1
  BY <1>3 DEF Cost, Worth
<1>6. Within(MaxParents - left + 1)
  BY <1>5 DEF Within, Scale
<1>7. ChainInv /\ ChainLookedAt
  BY FS_EmptySet DEF ChainInv, ChainLookedAt
<1>8. TotalInv
  <2>1. DOMAIN rows = {}
    BY EmptySeq
  <2> QED
    BY <2>1, SumEmpty DEF TotalInv
<1> QED
  BY <1>1, <1>2, <1>4, <1>6, <1>7, <1>8, TotalIs DEF IInv

\* Both lookings, of the trader and of a manager above.
LEMMA LooksStep ==
    ASSUME IInv, NEW m \in Managers, Looks(m), pc # "failed", pc' = "up",
           at' \in Managers \cup {NoManager}, left' \in 0..MaxParents,
           missing' \in Kind \cup {"none"},
           NEW n \in Nat, MaxParents - left' = n, Within(n)
    PROVE  TypeOK' /\ RowsInv' /\ OneRowEach' /\ TotalIsHighest' /\ TotalInv'
<1>1. TypeOK /\ Highest("fixed") /\ Highest("point")
  BY TotalIs DEF IInv
<1>2. \A k \in Kind : Highest(k)
  BY <1>1 DEF Kind
<1>3. TypeOK'
  <2>1. parent' = parent /\ setting' = setting /\ volume' = volume
    BY DEF Looks, Earns, PassedBy, inputs
  <2> QED
    BY <1>1, <2>1, LooksType DEF TypeOK
<1>4. RowsInv' /\ OneRowEach'
  BY <1>1, <1>2, LooksRows DEF IInv
<1>5. Highest("fixed")' /\ Highest("point")'
  BY <1>1, LooksHighest DEF Kind
<1>6. Within(MaxParents - left + 1)'
  <2>1. Within(n + 1)'
    BY <1>1, LooksWithin
  <2> QED
    BY <2>1 DEF Within
<1>7. (TotalIsHighest <=>
          (pc # "failed" => /\ Highest("fixed") /\ Highest("point")
                            /\ Within(MaxParents - left + 1)))'
  BY TotalIs, PTL
<1>8. TotalInv'
  BY <1>1, TotalLooks DEF IInv
<1> QED
  BY <1>3, <1>4, <1>5, <1>6, <1>7, <1>8

\* A manager whose rebate is not of the missing kind goes with the trader's.
LEMMA MixedIs ==
    ASSUME TypeOK, StartInv, pc = "up", NEW m \in Managers, setting[m].kind # "none"
    PROVE  setting[m].kind = missing <=>
              /\ setting[Trader].kind # "none"
              /\ setting[m].kind # setting[Trader].kind
<1>1. setting[m].kind \in Kind /\ setting[Trader].kind \in Kind \cup {"none"} /\ "none" \notin Kind
  BY SettingType, ChainAssumption DEF Kind
<1>2. missing = IF setting[Trader].kind = "none" THEN "none" ELSE Other(setting[Trader].kind)
  BY DEF StartInv
<1>3. CASE setting[Trader].kind = "none"
  BY <1>1, <1>2, <1>3
<1>4. CASE setting[Trader].kind # "none"
  <2>1. setting[Trader].kind \in Kind
    BY <1>1, <1>4
  <2>2. LET t == setting[Trader].kind
        IN  Other(t) # t /\ \A k \in Kind : k = t \/ k = Other(t)
    BY <2>1, KindsDiffer
  <2> QED
    BY <1>1, <1>2, <1>4, <2>2
<1> QED
  BY <1>3, <1>4

LEMMA SelfStep == IInv /\ Self => IInv'
<1> SUFFICES ASSUME IInv, Self PROVE IInv'
  OBVIOUS
<1>1. TypeOK /\ StartInv /\ MixedFails /\ pc = "self" /\ Trader \in Managers
  BY ChainAssumption DEF IInv, Self
<1>2. Looks(Trader) /\ left' = left
  BY <1>1, SelfLooks
<1>3. pc' = "up" /\ at' \in Managers \cup {NoManager} /\ left' \in 0..MaxParents
  BY <1>1, <1>2 DEF Self, TypeOK
<1>4. missing' = IF setting[Trader].kind = "none" THEN "none" ELSE Other(setting[Trader].kind)
  BY <1>1 DEF Self, StartInv
<1>5. missing' \in Kind \cup {"none"}
  BY <1>1, <1>4, SettingType, KindsDiffer
<1>6. Within(MaxParents - left)
  <2>1. Cost(mark) = 0 /\ total = 0
    <3>1. mark["fixed"] = 0 /\ mark["point"] = 0 /\ total = 0
      BY <1>1 DEF StartInv
    <3>2. volume \in Nat /\ PointValue \in Nat
      BY <1>1, ChainAssumption DEF TypeOK
    <3> QED
      BY <3>1, <3>2 DEF Cost, Worth
  <2>2. MaxParents - left \in Nat
    BY <1>1, ChainAssumption DEF TypeOK
  <2> HIDE DEF Cost
  <2> QED
    BY <2>1, <2>2 DEF Within, Scale
<1>7. TypeOK' /\ RowsInv' /\ OneRowEach' /\ TotalIsHighest' /\ TotalInv'
  <2> DEFINE n == MaxParents - left
  <2>1. n \in Nat
    BY <1>1, ChainAssumption DEF TypeOK
  <2> QED
    BY <1>1, <1>2, <1>3, <1>5, <1>6, <2>1, LooksStep
<1>8. StartInv'
  BY <1>3, <1>4 DEF Self, inputs, StartInv
<1>9. MixedFails'
  BY <1>3 DEF Self, inputs, MixedFails
<1> QED
  BY <1>1, <1>7, <1>8, <1>9, ChainSelf DEF IInv

LEMMA LookUpStep == IInv /\ LookUp => IInv'
<1> SUFFICES ASSUME IInv, LookUp PROVE IInv'
  OBVIOUS
<1>1. TypeOK /\ StartInv /\ MixedFails /\ pc = "up"
  BY DEF IInv, LookUp, MayLookUp
<1>2. Looks(at) /\ at \in Managers /\ left' = left - 1 /\ left > 0
  BY <1>1, LookUpLooks
<1>3. pc' = "up" /\ missing' = missing /\ at' \in Managers \cup {NoManager}
      /\ left' \in 0..MaxParents
  BY <1>1, <1>2, ChainAssumption DEF LookUp, TypeOK
<1>4. Within(MaxParents - left + 1)
  BY <1>1, TotalIs DEF IInv
<1>5. TypeOK' /\ RowsInv' /\ OneRowEach' /\ TotalIsHighest' /\ TotalInv'
  <2> DEFINE n == MaxParents - left + 1
  <2>1. n \in Nat /\ MaxParents - left' = n
    BY <1>1, <1>2, ChainAssumption DEF TypeOK
  <2> QED
    BY <1>1, <1>2, <1>3, <1>4, <2>1, LooksStep DEF TypeOK
<1>6. StartInv'
  BY <1>1, <1>3 DEF LookUp, inputs, StartInv
<1>7. MixedFails'
  <2>1. setting[at].kind \in {"none", setting[Trader].kind} \/ setting[Trader].kind = "none"
    BY <1>1, <1>2, MixedIs DEF LookUp
  <2> QED
    BY <1>1, <1>3, <2>1 DEF LookUp, inputs, MixedFails
<1>8. ChainInv' /\ ChainLookedAt'
  BY <1>1, ChainLookUp DEF IInv
<1> QED
  BY <1>5, <1>6, <1>7, <1>8 DEF IInv

LEMMA LookUpNullStep == IInv /\ LookUpNull => IInv'
<1> SUFFICES ASSUME IInv, LookUpNull PROVE IInv'
  OBVIOUS
<1>1. TypeOK /\ StartInv /\ RowsInv /\ OneRowEach /\ pc = "up" /\ at \in Managers /\ left > 0
  BY DEF IInv, LookUpNull, MayLookUp, TypeOK
<1>2. pc' = "failed" /\ seen' = seen \cup {at} /\ left' = left - 1
      /\ UNCHANGED <<parent, setting, volume, at, mark, missing, rows, total>>
  BY DEF LookUpNull, Count, inputs
<1>3. TypeOK'
  BY <1>1, <1>2, ChainAssumption DEF TypeOK
<1>4. StartInv'
  BY <1>1, <1>2 DEF StartInv
<1>5. RowsInv' /\ OneRowEach' /\ TotalIsHighest'
  BY <1>1, <1>2 DEF RowsInv, OneRowEach, TotalIsHighest
<1>6. MixedFails'
  <2>1. setting[Trader].kind # "none" /\ setting[at].kind \notin {"none", setting[Trader].kind}
    BY <1>1, MixedIs DEF LookUpNull
  <2> QED
    BY <1>2, <2>1 DEF MixedFails
<1>7. ChainInv' /\ ChainLookedAt'
  <2>1. IsFiniteSet(seen') /\ Trader \in seen'
    BY <1>1, <1>2, FS_AddElement DEF IInv, ChainInv
  <2> QED
    BY <1>2, <2>1 DEF ChainInv, ChainLookedAt
<1>8. TotalInv'
  BY <1>2 DEF IInv, TotalInv, Rebates
<1> QED
  BY <1>3, <1>4, <1>5, <1>6, <1>7, <1>8 DEF IInv

\* The division of a deal stops, or nothing happens.
LEMMA StopStep ==
    ASSUME IInv, pc' = pc \/ Stop,
           UNCHANGED <<inputs, at, left, mark, missing, rows, total, seen>>
    PROVE  IInv'
<1>0. pc' = pc \/ (pc = "up" /\ pc' = "done")
  BY DEF Stop
<1>1. TypeOK'
  BY <1>0 DEF IInv, TypeOK, inputs
<1>2. StartInv'
  BY <1>0 DEF IInv, StartInv, inputs
<1>3. RowsInv' /\ OneRowEach' /\ MixedFails'
  BY <1>0 DEF IInv, RowsInv, OneRowEach, MixedFails, inputs
<1>4. TotalIsHighest'
  BY <1>0 DEF IInv, TotalIsHighest, Highest, Worth, inputs
<1>5. ChainInv' /\ ChainLookedAt'
  <2>1. CASE pc' = pc
    BY <2>1 DEF IInv, ChainInv, ChainLookedAt, ChainIsSeen, inputs
  <2>2. CASE Stop
    BY <2>2, ChainStop DEF IInv
  <2> QED
    BY <2>1, <2>2
<1>6. TotalInv'
  BY DEF IInv, TotalInv, Rebates
<1> QED
  BY <1>1, <1>2, <1>3, <1>4, <1>5, <1>6 DEF IInv

LEMMA NextHolds == IInv /\ [Next]_vars => IInv'
<1> SUFFICES ASSUME IInv, [Next]_vars PROVE IInv'
  OBVIOUS
<1>1. CASE Stop
  BY <1>1, StopStep DEF Stop
<1>2. CASE UNCHANGED vars
  BY <1>2, StopStep DEF vars, inputs
<1> QED
  BY <1>1, <1>2, SelfStep, LookUpStep, LookUpNullStep DEF Next

\* What the results below rest on.
THEOREM Inductive == Spec => []IInv
  BY InitHolds, NextHolds, PTL DEF Spec
-----------------------------------------------------------------------------
(* The results *)

\* The division of a deal keeps its types.
THEOREM TypeCorrect == Spec => []TypeOK
<1>1. IInv => TypeOK
  BY DEF IInv
<1> QED
  BY <1>1, Inductive, PTL

\* refreshTradesToRebate gives nobody two rows of a deal, in any hierarchy, also
\* in one with a cycle.
THEOREM OneRowForEach == Spec => []OneRowEach
<1>1. IInv => OneRowEach
  BY DEF IInv
<1> QED
  BY <1>1, Inductive, PTL

\* What refreshTradesToRebate gives away for a deal is the highest rebate of each
\* kind on the chain, but for half a cent for every manager looked at.
THEOREM TotalIsTheHighest == Spec => []TotalIsHighest
<1>1. IInv => TotalIsHighest
  BY DEF IInv
<1> QED
  BY <1>1, Inductive, PTL

\* refreshTradesToRebate fails on just the deals whose chain mixes kinds.
THEOREM FailsWhenMixed == Spec => []MixedFails
<1>1. IInv => MixedFails
  BY DEF IInv
<1> QED
  BY <1>1, Inductive, PTL

\* refreshTradesToRebate leaves out nobody on the chain of a deal it has divided, but
\* those beyond the hundredth manager.
THEOREM NobodyLeftOut == Spec => []ChainLookedAt
<1>1. IInv => ChainLookedAt
  BY DEF IInv
<1> QED
  BY <1>1, Inductive, PTL

\* What TotalIsTheHighest says of `total` is said of the rows of the deal.
THEOREM TotalIsOfTheRows == Spec => []TotalInv
<1>1. IInv => TotalInv
  BY DEF IInv
<1> QED
  BY <1>1, Inductive, PTL

\* What is left of the division: the trader, managers to look at, the end.
ToDo == IF pc = "self" THEN left + 2 ELSE IF pc = "up" THEN left + 1 ELSE 0

Lessens == ToDo \in Nat /\ ToDo' \in Nat /\ ToDo' < ToDo

\* The division of a deal takes at most as many steps as there are managers to look
\* at, the trader and the end, in a cycle of managers as well: every step leaves less.
THEOREM LessToDo == Spec => [][Lessens]_vars
<1>1. ASSUME TypeOK, Next
      PROVE  Lessens
  <2>1. left \in Nat
    BY <1>1, ChainAssumption DEF TypeOK
  <2>2. CASE Self
    BY <2>1, <2>2 DEF Self, ToDo, Lessens
  <2>3. CASE LookUp
    BY <2>1, <2>3 DEF LookUp, MayLookUp, Count, ToDo, Lessens
  <2>4. CASE LookUpNull
    BY <2>1, <2>4 DEF LookUpNull, MayLookUp, Count, ToDo, Lessens
  <2>5. CASE Stop
    BY <2>1, <2>5 DEF Stop, ToDo, Lessens
  <2> QED
    BY <1>1, <2>2, <2>3, <2>4, <2>5 DEF Next
<1>2. TypeOK /\ [Next]_vars => [Lessens]_vars
  BY <1>1
<1> QED
  BY <1>2, TypeCorrect, PTL DEF Spec
=============================================================================
