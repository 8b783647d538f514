----------------------- MODULE ContractSelection_proofs -----------------------
(***************************************************************************)
(* Theorems about ContractSelection, for any contracts, names and command  *)
(* lines: the search ends with a best match and with every match found,    *)
(* and translating all contracts translates all or fails.                  *)
(***************************************************************************)
EXTENDS ContractSelection, WellFoundedInduction, TLAPS

Indices     == 1..Len(contracts)
Identifiers == {Cname(key) : key \in Keys} \cup Lookups
Outputs     == [identifier : Identifiers, contract : Nat]

\* The names of the contracts, and how well they match.
Names == [j \in Indices |-> Cname(contracts[j].key)]
Ranks == [j \in Indices |-> Rank(Names[j])]

SelectionType ==
    /\ opts \in Options /\ contracts \in Seq(Contract)
    /\ stage \in {"start", "search", "translate", "done", "error"}
    /\ turn \in 0..Len(contracts)
    /\ translated \in Seq(Outputs)

\* Only a combined json of many contracts is searched or gone through.
StageInv ==
    /\ stage = "search" => Searched
    /\ stage = "translate" => IsMany
    /\ stage = "start" => turn = 0
    /\ stage \in {"start", "search"} => abis = <<>> /\ translated = <<>>

\* An ABI that is left alone.
LeftAlone(o) == abis = Append(translated, o) /\ Convertible(contracts[o.contract])

AbiInv ==
    IsMany => abis = translated \/ (stage = "error" /\ \E o \in Outputs : LeftAlone(o))

AllInv ==
    IsMany /\ opts.translate_all =>
        /\ stage = "translate" => Len(translated) = turn
        /\ stage = "done" => Len(translated) = Len(contracts)
        /\ \A k \in 1..Len(translated) :
              translated[k].contract = k /\ Convertible(contracts[k])

\* The match that the search has found so far.
IsFound(k) ==
    /\ best_match = Names[k]
    /\ \/ Ranks[k] = best_match_score + 2
       \/ best_match_score = 0 /\ Ranks[k] = 1
    /\ \A j \in 1..turn : Ranks[k] <= Ranks[j]

SearchInv ==
    stage = "search" =>
        /\ best_match_score \in 0..WorstScore
        /\ \A j \in 1..turn : Ranks[j] # 0
        /\ best_match_score = WorstScore => \A j \in 1..turn : Ranks[j] = WorstScore
        /\ best_match_score # WorstScore => \E k \in 1..turn : IsFound(k)

NoMatch   == \A j \in Indices : Ranks[j] = WorstScore
IsBest(k) == \A j \in Indices : Ranks[k] <= Ranks[j]
HasBest(k) == best_match = Names[k] /\ IsBest(k)

\* What the search ends with.
FoundBest == NoMatch \/ \E k \in Indices : HasBest(k)

BestInv ==
    Searched =>
        /\ stage = "translate" =>
              translated = <<>> /\ FoundBest /\ \A k \in 1..turn : best_match # Names[k]
        /\ stage = "done" /\ translated = <<>> => NoMatch
        /\ Len(translated) <= 1
        /\ \A k \in 1..Len(translated) :
              translated[k].contract \in Indices /\ IsBest(translated[k].contract)

SelectionInv ==
    SelectionType /\ StageInv /\ AbiInv /\ AllInv /\ SearchInv /\ BestInv

-----------------------------------------------------------------------------
(* Ranks *)

LEMMA MinIs ==
    ASSUME NEW S \in SUBSET Nat, S # {}
    PROVE  Min(S) \in S /\ \A y \in S : Min(S) <= y
<1>1. PICK x \in S : \A y \in S : ~(<<y, x>> \in OpToRel(<, Nat))
    BY NatLessThanWellFounded, WFMin
<1>2. OpToRel(<, Nat) = {ss \in Nat \X Nat : ss[1] < ss[2]} BY Zenon DEF OpToRel
<1>3. \A y \in S : y \in Nat /\ <<y, x>> \in Nat \X Nat OBVIOUS
<1>4. \A y \in S : ~(y < x)
    <2> DEFINE R == OpToRel(<, Nat)
    <2>1. (\A y \in S : ~(<<y, x>> \in R)) /\ R = {ss \in Nat \X Nat : ss[1] < ss[2]} BY <1>1, <1>2
    <2> HIDE DEF R
    <2> QED BY ONLY <1>3, <2>1
<1>5. \A y \in S : x <= y BY ONLY <1>3, <1>4, S \in SUBSET Nat, x \in S
<1> QED BY ONLY <1>5 DEF Min

LEMMA LookedFor == ASSUME opts \in Options PROVE LookFor \in Lookups
<1>1. /\ opts.name \in Lookups
      /\ opts.contract_name = <<>> \/ \E n \in Lookups : opts.contract_name = <<n>>
    BY DEF Options
<1>2. \A n : Head(<<n>>) = n OBVIOUS
<1> QED BY ONLY <1>1, <1>2 DEF LookFor

LEMMA KeysAreKeys ==
    ASSUME SelectionType, NEW j \in Indices
    PROVE  contracts[j].key \in Keys /\ Names[j] = Cname(contracts[j].key) /\ Ranks[j] = Rank(Names[j])
<1>1. contracts[j] \in Contract BY DEF SelectionType, Indices
<1> QED BY <1>1 DEF Contract, Names, Ranks

\* The rank of a contract's name, by its scores.
HasRank(name, r) ==
    /\ name = LookFor => r = 0
    /\ name # LookFor /\ Normalized(name) = Normalized(LookFor) => r = 1
    /\ Normalized(name) # Normalized(LookFor) /\ ScoresOf(name) = {} => r = WorstScore
    /\ Normalized(name) # Normalized(LookFor) /\ ScoresOf(name) # {} =>
          r - 2 \in ScoresOf(name) /\ \A w \in ScoresOf(name) : r - 2 <= w

LEMMA WorstIs == WorstScore \in Nat /\ WorstScore >= 3
BY DEF WorstScore

LEMMA RankIs ==
    ASSUME SelectionType, NEW j \in Indices
    PROVE  /\ ScoresOf(Names[j]) \subseteq 0..(WorstScore - 3)
           /\ HasRank(Names[j], Ranks[j]) /\ Ranks[j] \in 0..WorstScore
<1>1. LookFor \in Lookups BY LookedFor DEF SelectionType
<1>2. /\ contracts[j].key \in Keys /\ Names[j] = Cname(contracts[j].key)
      /\ Ranks[j] = Rank(Names[j])
    BY KeysAreKeys
<1>3. ScoresOf(Names[j]) \subseteq 0..(WorstScore - 3) BY ONLY <1>1, <1>2, ScoresAssumption DEF ScoresOf
<1>4. ASSUME NEW S, S \subseteq 0..(WorstScore - 3), S # {} PROVE Min(S) \in S /\ \A w \in S : Min(S) <= w
    <2>1. S \in SUBSET Nat /\ S # {} BY <1>4
    <2> QED BY ONLY <2>1, MinIs, Zenon
<1>5. Ranks[j] = IF Names[j] = LookFor THEN 0
                 ELSE IF Normalized(Names[j]) = Normalized(LookFor) THEN 1
                 ELSE IF ScoresOf(Names[j]) # {} THEN 2 + Min(ScoresOf(Names[j])) ELSE WorstScore
    BY ONLY <1>2 DEF Rank
<1>6. Names[j] = LookFor => Normalized(Names[j]) = Normalized(LookFor) OBVIOUS
<1>7. ScoresOf(Names[j]) # {} => /\ Min(ScoresOf(Names[j])) \in ScoresOf(Names[j])
                                 /\ \A w \in ScoresOf(Names[j]) : Min(ScoresOf(Names[j])) <= w
    BY ONLY <1>3, <1>4
<1>8. \A w \in ScoresOf(Names[j]) : w \in 0..(WorstScore - 3) BY ONLY <1>3
<1>9. Ranks[j] \in 0..WorstScore /\ HasRank(Names[j], Ranks[j])
    <2> DEFINE name == Names[j]  l == LookFor  n == Normalized(Names[j])  m == Normalized(LookFor)
               S == ScoresOf(Names[j])  least == Min(ScoresOf(Names[j]))  r == Ranks[j]
    <2>1. /\ name = l => n = m
          /\ \A w \in S : w \in 0..(WorstScore - 3)
          /\ S # {} => least \in S
          /\ S # {} => \A w \in S : least <= w
          /\ r = IF name = l THEN 0 ELSE IF n = m THEN 1 ELSE IF S # {} THEN 2 + least ELSE WorstScore
        BY ONLY <1>5, <1>6, <1>7, <1>8
    <2> HIDE DEF name, l, n, m, S, least, r
    <2>2. CASE name = l
        <3>1. r = 0 /\ n = m BY ONLY <2>1, <2>2
        <3>2. r \in 0..WorstScore BY ONLY <3>1, WorstIs
        <3> QED BY ONLY <2>2, <3>1, <3>2 DEF HasRank, name, l, n, m, r
    <2>3. CASE name # l /\ n = m
        <3>1. r = 1 BY ONLY <2>1, <2>3
        <3>2. r \in 0..WorstScore BY ONLY <3>1, WorstIs
        <3> QED BY ONLY <2>3, <3>1, <3>2 DEF HasRank, name, l, n, m, r
    <2>4. CASE n # m /\ S = {}
        <3>1. r = WorstScore /\ name # l BY ONLY <2>1, <2>4
        <3>2. r \in 0..WorstScore BY ONLY <3>1, WorstIs
        <3> QED BY ONLY <2>4, <3>1, <3>2 DEF HasRank, name, l, n, m, S, r
    <2>5. CASE n # m /\ S # {}
        <3>1. r = 2 + least /\ name # l BY ONLY <2>1, <2>5
        <3>2. least \in S /\ \A w \in S : least <= w BY ONLY <2>1, <2>5, Zenon
        <3>3. least \in 0..(WorstScore - 3) BY ONLY <2>1, <3>2, Zenon
        <3>4. r - 2 = least /\ r \in 0..WorstScore BY ONLY <3>1, <3>3, WorstIs
        <3>5. r - 2 \in S /\ \A w \in S : r - 2 <= w BY ONLY <3>2, <3>4, Zenon
        <3> QED BY ONLY <2>5, <3>1, <3>4, <3>5 DEF HasRank, name, l, n, m, S, r
    <2> QED BY ONLY <2>2, <2>3, <2>4, <2>5
<1> QED BY ONLY <1>3, <1>9

\* The command line and the contracts stay the same.
LEMMA SameOpts ==
    ASSUME UNCHANGED optsVars
    PROVE  /\ opts' = opts /\ contracts' = contracts
           /\ Names' = Names /\ Ranks' = Ranks /\ Indices' = Indices /\ LookFor' = LookFor
           /\ IsMany' = IsMany /\ Searched' = Searched /\ NoMatch' = NoMatch
           /\ \A k : IsBest(k)' = IsBest(k)
           /\ \A c : Convertible(c)' = Convertible(c)
<1>1. opts' = opts /\ contracts' = contracts BY DEF optsVars
<1>2. Indices' = Indices /\ LookFor' = LookFor /\ IsMany' = IsMany /\ Searched' = Searched
    BY <1>1 DEF Indices, LookFor, IsMany, Searched
<1>3. Names' = Names BY <1>1, <1>2 DEF Names
<1>4. Ranks' = Ranks
    <2>1. \A j \in Indices : Rank(Names[j])' = Rank(Names[j])
        BY ONLY <1>2, <1>3 DEF Rank, ScoresOf
    <2> QED BY ONLY <1>2, <1>3, <2>1 DEF Ranks
<1>5. NoMatch' = NoMatch /\ \A k : IsBest(k)' = IsBest(k) BY <1>2, <1>4 DEF NoMatch, IsBest
<1>6. \A c : Convertible(c)' = Convertible(c) BY <1>1 DEF Convertible
<1> QED BY <1>1, <1>2, <1>3, <1>4, <1>5, <1>6

\* The types that the steps share.
LEMMA TypesAre ==
    ASSUME SelectionType
    PROVE  /\ Len(contracts) \in Nat /\ turn \in Nat /\ turn <= Len(contracts)
           /\ DOMAIN contracts = Indices /\ DOMAIN translated = 1..Len(translated)
           /\ Len(translated) \in Nat
           /\ turn < Len(contracts) => turn + 1 \in Indices /\ turn + 1 \in 0..Len(contracts)
           /\ turn < Len(contracts) => Names[turn + 1] = Candidate
BY DEF SelectionType, Indices, Names, Candidate

\* Translated once more.
LEMMA OneMore ==
    ASSUME NEW s \in Seq(Outputs), NEW o \in Outputs, NEW t, t = Append(s, o)
    PROVE  /\ t \in Seq(Outputs) /\ Len(t) = Len(s) + 1 /\ Len(s) \in Nat
           /\ t[Len(s) + 1] = o /\ \A k \in 1..Len(s) : t[k] = s[k]
           /\ \A k \in 1..Len(t) : k \in 1..Len(s) \/ k = Len(s) + 1
OBVIOUS

LEMMA OutputIs ==
    ASSUME SelectionType, turn < Len(contracts)
    PROVE  Output(Identifier) \in Outputs /\ Output(Identifier).contract = turn + 1
<1>1. turn + 1 \in Indices /\ turn + 1 \in Nat BY TypesAre
<1>2. contracts[turn + 1].key \in Keys BY <1>1, KeysAreKeys
<1>3. LookFor \in Lookups BY LookedFor DEF SelectionType
<1>4. Identifier \in Identifiers BY ONLY <1>2, <1>3 DEF Identifier, Identifiers, Here
<1> QED BY ONLY <1>1, <1>4 DEF Output, Outputs

-----------------------------------------------------------------------------
(* The search *)

\* A name that was considered and is not better leaves what is found.
LEMMA SearchGoesOn ==
    ASSUME SelectionInv, Consider,
           MatchNormalized \/ MatchPartly
    PROVE  SearchInv'
<1>1. /\ stage = "search" /\ turn < Len(contracts) /\ UNCHANGED optsVars /\ turn' = turn + 1
      /\ Names[turn + 1] = Candidate /\ turn + 1 \in Indices /\ turn \in Nat
    BY TypesAre DEF Consider, MatchNormalized, MatchPartly, SelectionInv
<1>2. /\ best_match_score \in 0..WorstScore
      /\ \A j \in 1..turn : Ranks[j] # 0
      /\ best_match_score = WorstScore => \A j \in 1..turn : Ranks[j] = WorstScore
      /\ best_match_score # WorstScore => \E k \in 1..turn : IsFound(k)
    BY ONLY <1>1, SelectionInv DEF SelectionInv, SearchInv
<1>3. /\ ScoresOf(Candidate) \subseteq 0..(WorstScore - 3)
      /\ HasRank(Candidate, Ranks[turn + 1]) /\ Ranks[turn + 1] \in 0..WorstScore
    BY ONLY <1>1, SelectionInv, RankIs DEF SelectionInv
<1>4. \A j \in 1..turn : Ranks[j] \in 0..WorstScore
    <2>1. \A j \in 1..turn : j \in Indices BY ONLY <1>1 DEF Indices
    <2> QED BY ONLY <2>1, SelectionInv, RankIs DEF SelectionInv
<1>5. Names' = Names /\ Ranks' = Ranks BY ONLY <1>1, SameOpts
<1>6. \A j \in 1..(turn + 1) : j \in 1..turn \/ j = turn + 1 BY ONLY <1>1
<1>7. 1..turn \subseteq 1..(turn + 1) /\ turn + 1 \in 1..(turn + 1) BY ONLY <1>1
<1> DEFINE r == Ranks[turn + 1]
<1> HIDE DEF r
<1>8. CASE MatchNormalized
    <2>1. r = 1 BY ONLY <1>3, <1>8 DEF HasRank, MatchNormalized, r
    <2>2. best_match' = Names[turn + 1] /\ best_match_score' = 0
        BY ONLY <1>1, <1>8 DEF MatchNormalized
    <2>3. \A j \in 1..(turn + 1) : Ranks[j] # 0 BY ONLY <1>2, <1>6, <2>1 DEF r
    <2>4. \A j \in 1..(turn + 1) : Ranks[turn + 1] <= Ranks[j]
        <3>1. \A j \in 1..turn : Ranks[j] \in 0..WorstScore /\ Ranks[j] # 0 => 1 <= Ranks[j]
            BY ONLY WorstIs
        <3>2. r <= r BY ONLY <2>1
        <3> QED BY ONLY <1>2, <1>4, <1>6, <2>1, <3>1, <3>2 DEF r
    <2>5. \E k \in 1..(turn + 1) : IsFound(k)'
        <3>1. PICK k \in 1..(turn + 1) : k = turn + 1 BY ONLY <1>7
        <3>2. /\ best_match' = Names'[k] /\ best_match_score' = 0 /\ Ranks'[k] = 1
              /\ \A j \in 1..turn' : Ranks'[k] <= Ranks'[j]
            BY ONLY <1>1, <1>5, <2>1, <2>2, <2>4, <3>1 DEF r
        <3>3. IsFound(k)' BY ONLY <3>2 DEF IsFound
        <3> QED BY ONLY <3>3
    <2>6. best_match_score' \in 0..WorstScore /\ best_match_score' # WorstScore
        BY ONLY <2>2, WorstIs
    <2> QED BY ONLY <1>1, <1>5, <2>3, <2>5, <2>6 DEF SearchInv
<1>9. CASE MatchPartly
    <2>1. Normalized(Candidate) # Normalized(LookFor) BY ONLY <1>9 DEF MatchPartly
    <2>2. \/ ScoresOf(Candidate) = {} /\ r = WorstScore
          \/ r - 2 \in ScoresOf(Candidate) /\ \A w \in ScoresOf(Candidate) : r - 2 <= w
        BY ONLY <1>3, <2>1 DEF HasRank, r
    <2>3. r \in 0..WorstScore /\ r # 0
        <3>1. CASE r = WorstScore BY ONLY <1>3, <3>1, WorstIs DEF r
        <3>2. CASE r - 2 \in ScoresOf(Candidate)
            <4>1. r - 2 \in 0..(WorstScore - 3) BY ONLY <1>3, <3>2
            <4> QED BY ONLY <1>3, <4>1 DEF r
        <3> QED BY ONLY <2>2, <3>1, <3>2
    <2>4. \A j \in 1..(turn + 1) : Ranks[j] # 0 BY ONLY <1>2, <1>6, <2>3 DEF r
    <2>5. CASE Better = {}
        <3>1. best_match' = best_match /\ best_match_score' = best_match_score
            BY ONLY <1>9, <2>5 DEF MatchPartly
        <3>2. r = WorstScore \/ best_match_score + 2 <= r
            <4>1. ASSUME r - 2 \in ScoresOf(Candidate) PROVE best_match_score + 2 <= r
                <5>1. ~(r - 2 < best_match_score) BY ONLY <2>5, <4>1 DEF Better
                <5> QED BY ONLY <1>2, <2>3, <5>1
            <4> QED BY ONLY <2>2, <4>1
        <3>3. CASE best_match_score = WorstScore
            <4>1. r = WorstScore BY ONLY <2>3, <3>2, <3>3, WorstIs
            <4> QED BY ONLY <1>1, <1>2, <1>5, <1>6, <2>4, <3>1, <3>3, <4>1, WorstIs
                    DEF SearchInv, r
        <3>4. CASE best_match_score # WorstScore
            <4>1. PICK k \in 1..turn : IsFound(k) BY ONLY <1>2, <3>4
            <4>2. Ranks[k] \in 0..WorstScore /\ (Ranks[k] = best_match_score + 2 \/ (best_match_score = 0 /\ Ranks[k] = 1))
                BY ONLY <1>4, <4>1 DEF IsFound
            <4>3. Ranks[k] <= r BY ONLY <1>2, <2>3, <3>2, <4>2, WorstIs
            <4>4. \A j \in 1..(turn + 1) : Ranks[k] <= Ranks[j]
                BY ONLY <1>6, <4>1, <4>3 DEF IsFound, r
            <4>5. IsFound(k)' BY ONLY <1>1, <1>5, <3>1, <4>1, <4>4 DEF IsFound
            <4>6. k \in 1..(turn + 1) BY ONLY <1>7, <4>1
            <4> QED BY ONLY <1>1, <1>2, <1>5, <2>4, <3>1, <3>4, <4>5, <4>6 DEF SearchInv
        <3> QED BY ONLY <3>3, <3>4
    <2>6. CASE Better # {}
        <3> DEFINE w == CHOOSE w \in Better : \A v \in Better : w <= v
        <3>1. best_match' = Names[turn + 1] /\ best_match_score' = w
            BY ONLY <1>1, <1>9, <2>6 DEF MatchPartly
        <3>2. r - 2 \in Better /\ \A v \in Better : r - 2 <= v
            <4>1. PICK v \in ScoresOf(Candidate) : v < best_match_score BY ONLY <2>6 DEF Better
            <4>2. r - 2 \in ScoresOf(Candidate) /\ r - 2 <= v BY ONLY <2>2, <4>1
            <4>3. v \in Int BY ONLY <1>3, <4>1, WorstIs
            <4>4. r - 2 < best_match_score BY ONLY <1>2, <2>3, <4>1, <4>2, <4>3, WorstIs
            <4> QED BY ONLY <2>2, <4>1, <4>2, <4>4 DEF Better
        <3>3. w \in Better /\ \A v \in Better : w <= v BY ONLY <3>2
        <3> HIDE DEF w
        <3>4. w \in 0..(WorstScore - 3) /\ w < best_match_score BY ONLY <1>3, <3>3 DEF Better
        <3>5. w = r - 2
            <4>1. w <= r - 2 /\ r - 2 <= w BY ONLY <3>2, <3>3
            <4> QED BY ONLY <2>3, <3>4, <4>1, WorstIs
        <3>6. \A j \in 1..turn : Ranks[turn + 1] <= Ranks[j]
            <4>1. CASE best_match_score = WorstScore
                <5>1. r <= WorstScore BY ONLY <2>3, WorstIs
                <5> QED BY ONLY <1>2, <4>1, <5>1 DEF r
            <4>2. CASE best_match_score # WorstScore
                <5>1. PICK k \in 1..turn : IsFound(k) BY ONLY <1>2, <4>2
                <5>2. Ranks[k] \in 0..WorstScore /\ (Ranks[k] = best_match_score + 2 \/ (best_match_score = 0 /\ Ranks[k] = 1))
                    BY ONLY <1>4, <5>1 DEF IsFound
                <5>3. r <= Ranks[k] BY ONLY <1>2, <2>3, <3>4, <3>5, <5>2, WorstIs
                <5>4. \A j \in 1..turn : Ranks[k] <= Ranks[j] BY ONLY <5>1 DEF IsFound
                <5> HIDE DEF w
                <5>5. ASSUME NEW j \in 1..turn PROVE r <= Ranks[j]
                    <6>1. Ranks[k] <= Ranks[j] /\ Ranks[j] \in 0..WorstScore BY ONLY <1>4, <5>4, <5>5
                    <6> QED BY ONLY <2>3, <5>2, <5>3, <6>1, WorstIs
                <5> QED BY ONLY <5>5 DEF r
            <4> QED BY ONLY <4>1, <4>2
        <3>7. \A j \in 1..(turn + 1) : Ranks[turn + 1] <= Ranks[j]
            <4>1. r <= r BY ONLY <2>3, WorstIs
            <4> QED BY ONLY <1>6, <3>6, <4>1 DEF r
        <3>8. r = w + 2 BY ONLY <2>3, <3>4, <3>5, WorstIs
        <3>9. \E k \in 1..(turn + 1) : IsFound(k)'
            <4>1. PICK k \in 1..(turn + 1) : k = turn + 1 BY ONLY <1>7
            <4>2. /\ best_match' = Names'[k] /\ Ranks'[k] = best_match_score' + 2
                  /\ \A j \in 1..turn' : Ranks'[k] <= Ranks'[j]
                BY ONLY <1>1, <1>5, <3>1, <3>7, <3>8, <4>1 DEF r
            <4>3. IsFound(k)' BY ONLY <4>2 DEF IsFound
            <4> QED BY ONLY <4>3
        <3>10. best_match_score' \in 0..WorstScore /\ best_match_score' # WorstScore
            BY ONLY <3>1, <3>4, WorstIs
        <3> QED BY ONLY <1>1, <1>5, <2>4, <3>9, <3>10 DEF SearchInv
    <2> QED BY ONLY <2>5, <2>6
<1> QED BY ONLY <1>8, <1>9, MatchNormalized \/ MatchPartly

\* The search is over: what it found is best among all.
LEMMA SearchEnds ==
    ASSUME SelectionInv, EndSearch \/ MatchExactly
    PROVE  FoundBest'
<1>1. stage = "search" /\ UNCHANGED optsVars /\ turn \in Nat /\ Len(contracts) \in Nat
    BY TypesAre DEF EndSearch, MatchExactly, Consider, SelectionInv
<1>2. \A j \in Indices : Ranks[j] \in 0..WorstScore BY ONLY SelectionInv, RankIs DEF SelectionInv
<1>3. Names' = Names /\ Ranks' = Ranks /\ Indices' = Indices /\ NoMatch' = NoMatch
    BY ONLY <1>1, SameOpts
<1>4. CASE EndSearch
    <2>1. turn = Len(contracts) /\ best_match' = best_match BY ONLY <1>4 DEF EndSearch
    <2>2. 1..turn = Indices BY ONLY <2>1 DEF Indices
    <2>3. /\ best_match_score = WorstScore => NoMatch
          /\ best_match_score # WorstScore => \E k \in Indices : IsFound(k)
        BY ONLY <1>1, <2>2, SelectionInv DEF SelectionInv, SearchInv, NoMatch
    <2>4. ASSUME NEW k \in Indices, IsFound(k) PROVE HasBest(k)'
        <3>1. best_match = Names[k] /\ \A j \in Indices : Ranks[k] <= Ranks[j]
            BY ONLY <2>2, <2>4 DEF IsFound
        <3> QED BY ONLY <1>3, <2>1, <3>1 DEF HasBest, IsBest
    <2> QED BY ONLY <1>3, <2>3, <2>4 DEF FoundBest
<1>5. CASE MatchExactly
    <2>1. Candidate = LookFor /\ best_match' = Candidate /\ turn < Len(contracts)
        BY ONLY <1>5 DEF MatchExactly, Consider
    <2>2. PICK k \in Indices : k = turn + 1 BY <1>1, <2>1 DEF Indices
    <2>3. Names[k] = Candidate BY ONLY <2>1, <2>2, SelectionInv, TypesAre DEF SelectionInv
    <2>4. Ranks[k] = 0
        BY ONLY <2>1, <2>3, k \in Indices, SelectionInv, RankIs DEF SelectionInv, HasRank
    <2>5. \A j \in Indices : Ranks[k] <= Ranks[j] BY ONLY <1>2, <2>4, WorstIs
    <2>6. HasBest(k)' BY ONLY <1>3, <2>1, <2>3, <2>5 DEF HasBest, IsBest
    <2> QED BY ONLY <1>3, <2>6 DEF FoundBest
<1> QED BY ONLY <1>4, <1>5, EndSearch \/ MatchExactly

\* A contract that has the name found is best.
LEMMA SelectedIsBest ==
    ASSUME SelectionType, FoundBest, NEW k \in Indices, best_match = Names[k]
    PROVE  IsBest(k)
<1>1. \A j \in Indices : Ranks[j] \in 0..WorstScore BY ONLY SelectionType, RankIs
<1>2. CASE NoMatch
    <2>1. \A j \in Indices : Ranks[k] <= Ranks[j]
        BY ONLY <1>2, k \in Indices, WorstIs DEF NoMatch
    <2> QED BY ONLY <2>1 DEF IsBest
<1>3. ASSUME NEW i \in Indices, HasBest(i) PROVE IsBest(k)
    <2>1. Names[i] = Names[k] BY ONLY <1>3, best_match = Names[k] DEF HasBest
    <2>2. Ranks[i] = Ranks[k] BY ONLY <2>1, i \in Indices, k \in Indices DEF Ranks
    <2> QED BY ONLY <1>3, <2>2 DEF HasBest, IsBest
<1> QED BY ONLY <1>2, <1>3, FoundBest DEF FoundBest

-----------------------------------------------------------------------------
(* The steps *)

\* Steps that fail without any output.
LEMMA FailInv ==
    ASSUME SelectionInv, UNCHANGED <<optsVars, turn, outVars>>, stage' = "error"
    PROVE  SelectionInv'
<1>1. /\ opts' = opts /\ contracts' = contracts /\ turn' = turn /\ abis' = abis
      /\ translated' = translated /\ UNCHANGED optsVars
    BY DEF optsVars, outVars
<1>2. SelectionType' BY ONLY <1>1, stage' = "error", SelectionInv DEF SelectionInv, SelectionType
<1>3. StageInv' /\ SearchInv' BY ONLY stage' = "error" DEF StageInv, SearchInv
<1>4. AbiInv'
    <2>1. IsMany' = IsMany BY ONLY <1>1, SameOpts
    <2>2. IsMany => abis = translated \/ \E o \in Outputs : LeftAlone(o)
        BY ONLY SelectionInv DEF SelectionInv, AbiInv
    <2>3. \A o : LeftAlone(o) => LeftAlone(o)' BY ONLY <1>1 DEF LeftAlone, Convertible
    <2> QED BY ONLY <1>1, <2>1, <2>2, <2>3, stage' = "error" DEF AbiInv
<1>5. AllInv' BY ONLY <1>1, stage' = "error", SelectionInv DEF SelectionInv, AllInv, Convertible, IsMany
<1>6. BestInv'
    <2>1. Searched' = Searched /\ Indices' = Indices /\ Ranks' = Ranks BY ONLY <1>1, SameOpts
    <2>2. Searched => /\ Len(translated) <= 1
                      /\ \A k \in 1..Len(translated) :
                            translated[k].contract \in Indices /\ IsBest(translated[k].contract)
        BY ONLY SelectionInv DEF SelectionInv, BestInv
    <2> QED BY ONLY <1>1, <2>1, <2>2, stage' = "error" DEF BestInv, IsBest
<1> QED BY ONLY <1>2, <1>3, <1>4, <1>5, <1>6 DEF SelectionInv

\* Nothing has been written before the contracts are gone through.
LEMMA BeforeLoop ==
    ASSUME SelectionInv, UNCHANGED <<optsVars, outVars>>, stage \in {"start", "search"},
           stage' \in {"search", "translate"}, turn' \in 0..Len(contracts), IsMany,
           stage' = "search" => Searched /\ SearchInv',
           stage' = "translate" => turn' = 0,
           stage' = "translate" /\ Searched => FoundBest'
    PROVE  SelectionInv'
<1>1. /\ opts' = opts /\ contracts' = contracts /\ abis' = abis
      /\ translated' = translated /\ UNCHANGED optsVars
    BY DEF optsVars, outVars
<1>2. abis = <<>> /\ translated = <<>> /\ Len(translated) = 0
    BY SelectionInv, stage \in {"start", "search"} DEF SelectionInv, StageInv
<1>3. SelectionType'
    BY ONLY <1>1, stage' \in {"search", "translate"}, turn' \in 0..Len(contracts), SelectionInv
       DEF SelectionInv, SelectionType
<1>4. IsMany' = IsMany /\ Searched' = Searched BY ONLY <1>1, SameOpts
<1>5. StageInv'
    BY ONLY <1>1, <1>2, <1>4, stage' \in {"search", "translate"}, IsMany, stage' = "search" => Searched /\ SearchInv'
       DEF StageInv
<1>6. AbiInv' BY ONLY <1>1, <1>2 DEF AbiInv
<1>7. AllInv'
    BY ONLY <1>1, <1>2, stage' \in {"search", "translate"}, stage' = "translate" => turn' = 0
       DEF AllInv
<1>8. SearchInv'
    BY ONLY stage' \in {"search", "translate"}, stage' = "search" => Searched /\ SearchInv' DEF SearchInv
<1>9. BestInv'
    BY ONLY <1>1, <1>2, <1>4, stage' \in {"search", "translate"}, stage' = "translate" => turn' = 0,
            stage' = "translate" /\ Searched => FoundBest' DEF BestInv
<1> QED BY ONLY <1>3, <1>5, <1>6, <1>7, <1>8, <1>9 DEF SelectionInv

\* In the loop all ABIs are those of the contracts translated.
LEMMA LoopIs ==
    ASSUME SelectionInv, stage = "translate"
    PROVE  /\ IsMany /\ abis = translated
           /\ opts.translate_all => Len(translated) = turn
           /\ ~opts.translate_all => /\ Searched /\ translated = <<>> /\ FoundBest
                                     /\ \A k \in 1..turn : best_match # Names[k]
BY DEF SelectionInv, StageInv, AbiInv, AllInv, BestInv, Searched

LEMMA TranslateFailsInv ==
    ASSUME SelectionInv, TranslateFails PROVE SelectionInv'
<1>1. /\ stage = "translate" /\ turn < Len(contracts) /\ Convertible(Here)
      /\ abis' = Append(abis, Output(Identifier)) /\ stage' = "error"
      /\ UNCHANGED <<optsVars, turn, best_match, best_match_score, translated>>
    BY DEF TranslateFails, InLoop, Abort
<1>2. opts' = opts /\ contracts' = contracts /\ turn' = turn /\ translated' = translated
    BY ONLY <1>1 DEF optsVars
<1>3. IsMany /\ abis = translated BY ONLY <1>1, SelectionInv, LoopIs
<1>4. SelectionType' BY ONLY <1>1, <1>2, SelectionInv DEF SelectionInv, SelectionType
<1>5. StageInv' /\ SearchInv' BY ONLY <1>1 DEF StageInv, SearchInv
<1>6. AbiInv'
    <2>1. PICK o \in Outputs : o = Output(Identifier) /\ o.contract = turn + 1
        BY ONLY <1>1, SelectionInv, OutputIs DEF SelectionInv
    <2>2. abis' = Append(translated', o) BY ONLY <1>1, <1>2, <1>3, <2>1
    <2>3. Convertible(contracts[o.contract])' BY ONLY <1>1, <1>2, <2>1 DEF Convertible, Here
    <2>4. LeftAlone(o)' BY ONLY <2>2, <2>3 DEF LeftAlone
    <2> QED BY ONLY <1>1, <2>4 DEF AbiInv
<1>7. AllInv' BY ONLY <1>1, <1>2, SelectionInv DEF SelectionInv, AllInv, Convertible, IsMany
<1>8. BestInv'
    <2>1. Searched' = Searched /\ Indices' = Indices /\ Ranks' = Ranks BY ONLY <1>1, SameOpts
    <2>2. Searched => /\ Len(translated) <= 1
                      /\ \A k \in 1..Len(translated) :
                            translated[k].contract \in Indices /\ IsBest(translated[k].contract)
        BY ONLY SelectionInv DEF SelectionInv, BestInv
    <2> QED BY ONLY <1>1, <1>2, <2>1, <2>2 DEF BestInv, IsBest
<1> QED BY ONLY <1>4, <1>5, <1>6, <1>7, <1>8 DEF SelectionInv

LEMMA NextContractInv ==
    ASSUME SelectionInv, NextContract PROVE SelectionInv'
<1>1. /\ stage = "translate" /\ turn < Len(contracts) /\ ~IsSelected
      /\ turn' = turn + 1 /\ stage' = stage
      /\ UNCHANGED <<optsVars, best_match, best_match_score, outVars>>
    BY DEF NextContract, InLoop
<1>2. /\ opts' = opts /\ contracts' = contracts /\ translated' = translated /\ abis' = abis
      /\ best_match' = best_match
    BY ONLY <1>1 DEF optsVars, outVars
<1>3. ~opts.translate_all /\ best_match # Cname(Here.key) BY ONLY <1>1 DEF IsSelected
<1>4. /\ IsMany /\ abis = translated /\ Searched /\ translated = <<>> /\ FoundBest
      /\ \A k \in 1..turn : best_match # Names[k]
    BY ONLY <1>1, <1>3, SelectionInv, LoopIs
<1>5. turn \in Nat /\ turn + 1 \in 0..Len(contracts) /\ Names[turn + 1] = Cname(Here.key)
    <2>1. Names[turn + 1] = Candidate /\ turn \in Nat /\ turn + 1 \in 0..Len(contracts)
        BY ONLY <1>1, SelectionInv, TypesAre DEF SelectionInv
    <2> QED BY ONLY <2>1 DEF Candidate, Here
<1>6. SelectionType' BY ONLY <1>1, <1>2, <1>5, SelectionInv DEF SelectionInv, SelectionType
<1>7. /\ IsMany' = IsMany /\ Searched' = Searched /\ Names' = Names /\ Ranks' = Ranks
      /\ Indices' = Indices /\ NoMatch' = NoMatch
    BY ONLY <1>1, SameOpts
<1>8. StageInv' /\ SearchInv' /\ AbiInv'
    BY ONLY <1>1, <1>2, <1>4, <1>7 DEF StageInv, SearchInv, AbiInv
<1>9. AllInv' BY ONLY <1>2, <1>3 DEF AllInv
<1>10. BestInv'
    <2>1. FoundBest' BY ONLY <1>2, <1>4, <1>7 DEF FoundBest, HasBest, IsBest
    <2>2. \A k \in 1..(turn + 1) : best_match # Names[k]
        <3>1. \A k \in 1..(turn + 1) : k \in 1..turn \/ k = turn + 1 BY ONLY <1>5
        <3> QED BY ONLY <1>3, <1>4, <1>5, <3>1
    <2>3. Len(translated') = 0 BY ONLY <1>2, <1>4
    <2> QED BY ONLY <1>1, <1>2, <1>4, <1>7, <2>1, <2>2, <2>3 DEF BestInv
<1> QED BY ONLY <1>6, <1>8, <1>9, <1>10 DEF SelectionInv

LEMMA EndLoopInv ==
    ASSUME SelectionInv, EndLoop PROVE SelectionInv'
<1>1. /\ stage = "translate" /\ turn = Len(contracts) /\ stage' = "done"
      /\ UNCHANGED <<optsVars, turn, best_match, best_match_score, outVars>>
    BY DEF EndLoop
<1>2. /\ opts' = opts /\ contracts' = contracts /\ translated' = translated /\ abis' = abis
      /\ best_match' = best_match /\ turn' = turn
    BY ONLY <1>1 DEF optsVars, outVars
<1>3. /\ IsMany /\ abis = translated
      /\ opts.translate_all => Len(translated) = turn
      /\ ~opts.translate_all => /\ Searched /\ translated = <<>> /\ FoundBest
                                /\ \A k \in 1..turn : best_match # Names[k]
    BY ONLY <1>1, SelectionInv, LoopIs
<1>4. SelectionType' BY ONLY <1>1, <1>2, SelectionInv DEF SelectionInv, SelectionType
<1>5. /\ IsMany' = IsMany /\ Searched' = Searched /\ NoMatch' = NoMatch /\ 1..turn = Indices
    BY ONLY <1>1, SameOpts DEF Indices
<1>6. StageInv' /\ SearchInv' /\ AbiInv'
    BY ONLY <1>1, <1>2, <1>3 DEF StageInv, SearchInv, AbiInv
<1>7. AllInv'
    <2>1. IsMany /\ opts.translate_all => \A k \in 1..Len(translated) :
              translated[k].contract = k /\ Convertible(contracts[k])
        BY ONLY SelectionInv DEF SelectionInv, AllInv
    <2> QED BY ONLY <1>1, <1>2, <1>3, <1>5, <2>1 DEF AllInv, Convertible
<1>8. BestInv'
    <2>1. Searched => translated = <<>> /\ NoMatch
        BY ONLY <1>3, <1>5 DEF Searched, FoundBest, HasBest
    <2>2. Searched => Len(translated) = 0 BY ONLY <2>1
    <2> QED BY ONLY <1>1, <1>2, <1>5, <2>1, <2>2 DEF BestInv
<1> QED BY ONLY <1>4, <1>6, <1>7, <1>8 DEF SelectionInv

LEMMA TranslateContractInv ==
    ASSUME SelectionInv, TranslateContract PROVE SelectionInv'
<1>1. /\ stage = "translate" /\ turn < Len(contracts) /\ IsSelected /\ Convertible(Here)
      /\ abis' = Append(abis, Output(Identifier))
      /\ translated' = Append(translated, Output(Identifier))
      /\ opts.translate_all => turn' = turn + 1 /\ stage' = stage
      /\ ~opts.translate_all => turn' = turn /\ stage' = "done"
      /\ UNCHANGED <<optsVars, best_match, best_match_score>>
    BY DEF TranslateContract, InLoop
<1>2. opts' = opts /\ contracts' = contracts /\ best_match' = best_match
    BY ONLY <1>1 DEF optsVars
<1>3. /\ IsMany /\ abis = translated
      /\ opts.translate_all => Len(translated) = turn
      /\ ~opts.translate_all => Searched /\ translated = <<>> /\ FoundBest
    BY ONLY <1>1, SelectionInv, LoopIs
<1>4. /\ turn \in Nat /\ turn \in 0..Len(contracts) /\ turn + 1 \in 0..Len(contracts)
      /\ turn + 1 \in Indices /\ Names[turn + 1] = Cname(Here.key)
    <2>1. /\ Names[turn + 1] = Candidate /\ turn \in Nat /\ turn + 1 \in 0..Len(contracts)
          /\ turn + 1 \in Indices
        BY ONLY <1>1, SelectionInv, TypesAre DEF SelectionInv
    <2> QED BY ONLY <2>1, SelectionInv DEF Candidate, Here, SelectionInv, SelectionType
<1>5. PICK o \in Outputs : o = Output(Identifier) /\ o.contract = turn + 1
    BY ONLY <1>1, SelectionInv, OutputIs DEF SelectionInv
<1>6. /\ translated' \in Seq(Outputs) /\ Len(translated') = Len(translated) + 1
      /\ Len(translated) \in Nat /\ translated'[Len(translated) + 1] = o
      /\ \A k \in 1..Len(translated) : translated'[k] = translated[k]
      /\ \A k \in 1..Len(translated') : k \in 1..Len(translated) \/ k = Len(translated) + 1
    BY ONLY <1>1, <1>5, SelectionInv, OneMore DEF SelectionInv, SelectionType
<1>7. SelectionType' BY ONLY <1>1, <1>2, <1>4, <1>6, SelectionInv DEF SelectionInv, SelectionType
<1>8. IsMany' = IsMany /\ Searched' = Searched /\ Indices' = Indices /\ Ranks' = Ranks
    BY ONLY <1>1, SameOpts
<1>9. StageInv' /\ SearchInv' /\ AbiInv'
    BY ONLY <1>1, <1>2, <1>3, <1>8 DEF StageInv, SearchInv, AbiInv
<1>10. AllInv'
    <2>1. CASE opts.translate_all
        <3>1. \A k \in 1..Len(translated) :
                 translated[k].contract = k /\ Convertible(contracts[k])
            BY ONLY <1>3, <2>1, SelectionInv DEF SelectionInv, AllInv
        <3>2. o.contract = Len(translated) + 1 /\ Convertible(contracts[Len(translated) + 1])
            BY ONLY <1>1, <1>3, <1>5, <2>1 DEF Here
        <3>3. \A k \in 1..Len(translated') :
                 translated'[k].contract = k /\ Convertible(contracts[k])
            BY ONLY <1>6, <3>1, <3>2
        <3>4. Len(translated') = turn' BY ONLY <1>1, <1>3, <1>6, <2>1
        <3> QED BY ONLY <1>1, <1>2, <2>1, <3>3, <3>4 DEF AllInv, Convertible
    <2>2. CASE ~opts.translate_all BY ONLY <1>2, <2>2 DEF AllInv
    <2> QED BY ONLY <2>1, <2>2
<1>11. BestInv'
    <2>1. CASE Searched
        <3>1. ~opts.translate_all BY ONLY <2>1 DEF Searched
        <3>2. best_match = Names[turn + 1] BY ONLY <1>1, <1>4, <3>1 DEF IsSelected
        <3>3. IsBest(turn + 1)
            BY ONLY <1>3, <1>4, <3>1, <3>2, SelectionInv, SelectedIsBest DEF SelectionInv
        <3>4. Len(translated) = 0 BY ONLY <1>3, <3>1
        <3>5. Len(translated') = 1 /\ translated'[1] = o BY ONLY <1>6, <3>4
        <3>6. \A k \in 1..Len(translated') : k = 1 BY ONLY <3>5
        <3>7. \A k \in 1..Len(translated') : translated'[k].contract = turn + 1
            BY ONLY <1>5, <3>5, <3>6
        <3>8. translated' # <<>> BY ONLY <1>6, <3>5
        <3>9. stage' = "done" BY ONLY <1>1, <3>1
        <3>10. \A j \in Indices : Ranks[turn + 1] <= Ranks[j] BY ONLY <3>3 DEF IsBest
        <3>11. \A k \in 1..Len(translated') : /\ translated'[k].contract \in Indices'
                    /\ \A j \in Indices' : Ranks'[translated'[k].contract] <= Ranks'[j]
            BY ONLY <1>4, <1>8, <3>7, <3>10
        <3> QED BY ONLY <3>5, <3>8, <3>9, <3>11 DEF BestInv, IsBest
    <2>2. CASE ~Searched BY ONLY <1>8, <2>2 DEF BestInv
    <2> QED BY ONLY <2>1, <2>2
<1> QED BY ONLY <1>7, <1>9, <1>10, <1>11 DEF SelectionInv

LEMMA TranslateOnlyInv ==
    ASSUME SelectionInv, NEW withAbi \in BOOLEAN, TranslateOnly(withAbi) PROVE SelectionInv'
<1>1. /\ ~IsMany /\ UNCHANGED optsVars /\ turn' = turn /\ stage' \in {"done", "error"}
      /\ translated' = <<>> \/ translated' = <<Output(opts.name)>>
    BY DEF TranslateOnly
<1>2. opts' = opts /\ contracts' = contracts BY ONLY <1>1 DEF optsVars
<1>3. IsMany' = IsMany /\ Searched' = Searched BY ONLY <1>1, SameOpts
<1>4. Output(opts.name) \in Outputs
    <2>1. turn + 1 \in Nat BY ONLY SelectionInv, TypesAre DEF SelectionInv
    <2>2. opts.name \in Identifiers
        BY ONLY SelectionInv DEF SelectionInv, SelectionType, Options, Identifiers
    <2> QED BY ONLY <2>1, <2>2 DEF Output, Outputs
<1>5. translated' \in Seq(Outputs)
    <2>1. \A o \in Outputs : <<o>> \in Seq(Outputs) OBVIOUS
    <2>2. <<>> \in Seq(Outputs) OBVIOUS
    <2>3. <<Output(opts.name)>> \in Seq(Outputs) BY ONLY <1>4, <2>1
    <2> QED BY ONLY <1>1, <2>2, <2>3
<1>6. SelectionType' BY ONLY <1>1, <1>2, <1>5, SelectionInv DEF SelectionInv, SelectionType
<1>7. StageInv' /\ AbiInv' /\ AllInv' /\ SearchInv' /\ BestInv'
    BY ONLY <1>1, <1>3 DEF StageInv, AbiInv, AllInv, SearchInv, BestInv, Searched
<1> QED BY ONLY <1>6, <1>7 DEF SelectionInv

LEMMA SelectionInit == Init => SelectionInv
<1> SUFFICES ASSUME Init PROVE SelectionInv OBVIOUS
<1>1. /\ opts \in CommandLines /\ stage = "start" /\ turn = 0
      /\ abis = <<>> /\ translated = <<>>
    BY DEF Init
<1>2. contracts \in Seq(Contract)
    <2>1. PICK n \in 0..MaxContracts : contracts \in [1..n -> Contract] BY DEF Init
    <2>2. n \in Nat BY ONLY <2>1, NamesAssumption
    <2>3. \A m \in Nat : [1..m -> Contract] \subseteq Seq(Contract) OBVIOUS
    <2> QED BY ONLY <2>1, <2>2, <2>3
<1>3. Len(contracts) \in Nat /\ 0 \in 0..Len(contracts) BY ONLY <1>2
<1>4. SelectionType
    BY ONLY <1>1, <1>2, <1>3, CommandLinesAssumption DEF SelectionType
<1>5. StageInv /\ AbiInv /\ SearchInv BY ONLY <1>1 DEF StageInv, AbiInv, SearchInv
<1>6. Len(translated) = 0 BY ONLY <1>1
<1>7. AllInv /\ BestInv BY ONLY <1>1, <1>6 DEF AllInv, BestInv
<1> QED BY ONLY <1>4, <1>5, <1>7 DEF SelectionInv

LEMMA SelectionNext == SelectionInv /\ [Next]_vars => SelectionInv'
<1> SUFFICES ASSUME SelectionInv, [Next]_vars PROVE SelectionInv' OBVIOUS
<1>1. CASE Refuse \/ RejectContract \/ WriteAbiFails
    <2>1. UNCHANGED <<optsVars, turn, outVars>> /\ stage' = "error"
        BY <1>1 DEF Refuse, Fail, RejectContract, WriteAbiFails, InLoop, Abort
    <2> QED BY ONLY <2>1, SelectionInv, FailInv
<1>2. CASE StartSearch
    <2>1. /\ stage = "start" /\ IsMany /\ ~opts.translate_all /\ stage' = "search"
          /\ best_match_score' = WorstScore /\ UNCHANGED <<optsVars, outVars>> /\ turn' = turn
        BY <1>2 DEF StartSearch
    <2>2. turn = 0 /\ turn \in 0..Len(contracts)
        BY ONLY <2>1, SelectionInv DEF SelectionInv, StageInv, SelectionType
    <2>3. SearchInv' BY ONLY <2>1, <2>2, WorstIs DEF SearchInv
    <2> QED BY ONLY <2>1, <2>2, <2>3, SelectionInv, BeforeLoop DEF Searched
<1>3. CASE StartAll
    <2>1. /\ stage = "start" /\ IsMany /\ opts.translate_all /\ stage' = "translate"
          /\ UNCHANGED <<optsVars, outVars>> /\ turn' = turn
        BY <1>3 DEF StartAll
    <2>2. turn = 0 /\ turn \in 0..Len(contracts)
        BY ONLY <2>1, SelectionInv DEF SelectionInv, StageInv, SelectionType
    <2> QED BY ONLY <2>1, <2>2, SelectionInv, BeforeLoop DEF Searched
<1>4. CASE MatchNormalized \/ MatchPartly
    <2>1. /\ Consider /\ stage = "search" /\ stage' = stage /\ turn' = turn + 1
          /\ turn < Len(contracts) /\ UNCHANGED <<optsVars, outVars>>
        BY <1>4 DEF MatchNormalized, MatchPartly, Consider
    <2>2. IsMany /\ Searched BY ONLY <2>1, SelectionInv DEF SelectionInv, StageInv, Searched
    <2>3. turn + 1 \in 0..Len(contracts)
        BY ONLY <2>1, SelectionInv, TypesAre DEF SelectionInv
    <2>4. SearchInv' BY ONLY <1>4, <2>1, SelectionInv, SearchGoesOn
    <2> QED BY ONLY <2>1, <2>2, <2>3, <2>4, SelectionInv, BeforeLoop
<1>5. CASE EndSearch \/ MatchExactly
    <2>1. /\ stage = "search" /\ stage' = "translate" /\ turn' = 0 /\ UNCHANGED <<optsVars, outVars>>
        BY <1>5 DEF EndSearch, MatchExactly, Consider
    <2>2. IsMany BY ONLY <2>1, SelectionInv DEF SelectionInv, StageInv, Searched
    <2>3. turn' \in 0..Len(contracts)
        <3>1. Len(contracts) \in Nat BY ONLY SelectionInv, TypesAre DEF SelectionInv
        <3> QED BY ONLY <2>1, <3>1
    <2>4. FoundBest' BY ONLY <1>5, SelectionInv, SearchEnds
    <2> QED BY ONLY <2>1, <2>2, <2>3, <2>4, SelectionInv, BeforeLoop
<1>6. CASE NextContract BY ONLY <1>6, SelectionInv, NextContractInv
<1>7. CASE TranslateFails BY ONLY <1>7, SelectionInv, TranslateFailsInv
<1>8. CASE TranslateContract BY ONLY <1>8, SelectionInv, TranslateContractInv
<1>9. CASE EndLoop BY ONLY <1>9, SelectionInv, EndLoopInv
<1>10. ASSUME NEW withAbi \in BOOLEAN, TranslateOnly(withAbi) PROVE SelectionInv'
    BY ONLY <1>10, SelectionInv, TranslateOnlyInv
<1>11. CASE UNCHANGED vars
    <2>1. /\ opts' = opts /\ contracts' = contracts /\ stage' = stage /\ turn' = turn
          /\ best_match' = best_match /\ best_match_score' = best_match_score
          /\ abis' = abis /\ translated' = translated /\ UNCHANGED optsVars
        BY <1>11 DEF vars, optsVars, outVars
    <2>2. /\ Names' = Names /\ Ranks' = Ranks /\ Indices' = Indices
          /\ IsMany' = IsMany /\ Searched' = Searched /\ NoMatch' = NoMatch
        BY ONLY <2>1, SameOpts
    <2>3. SelectionType' /\ StageInv'
        BY ONLY <2>1, <2>2, SelectionInv DEF SelectionInv, SelectionType, StageInv
    <2>4. AbiInv'
        <3>1. \A o : LeftAlone(o) => LeftAlone(o)' BY ONLY <2>1 DEF LeftAlone, Convertible
        <3> QED BY ONLY <2>1, <2>2, <3>1, SelectionInv DEF SelectionInv, AbiInv
    <2>5. AllInv' BY ONLY <2>1, <2>2, SelectionInv DEF SelectionInv, AllInv, Convertible
    <2>6. SearchInv' BY ONLY <2>1, <2>2, SelectionInv DEF SelectionInv, SearchInv, IsFound
    <2>7. BestInv'
        BY ONLY <2>1, <2>2, SelectionInv DEF SelectionInv, BestInv, FoundBest, HasBest, IsBest
    <2> QED BY ONLY <2>3, <2>4, <2>5, <2>6, <2>7 DEF SelectionInv
<1> QED BY <1>1, <1>2, <1>3, <1>4, <1>5, <1>6, <1>7, <1>8, <1>9, <1>10, <1>11 DEF Next

LEMMA SpecSelection == Spec => []SelectionInv
<1> QED BY SelectionInit, SelectionNext, PTL DEF Spec

-----------------------------------------------------------------------------
(* Theorems *)

LEMMA RanksAreRanks ==
    ASSUME SelectionInv
    PROVE  /\ DOMAIN contracts = Indices /\ DOMAIN translated = 1..Len(translated)
           /\ \A j \in Indices : Rank(Cname(contracts[j].key)) = Ranks[j]
<1>1. SelectionType BY DEF SelectionInv
<1>2. DOMAIN contracts = Indices /\ DOMAIN translated = 1..Len(translated) BY ONLY <1>1, TypesAre
<1>3. \A j \in Indices : Names[j] = Cname(contracts[j].key) /\ Ranks[j] = Rank(Names[j])
    BY ONLY <1>1, KeysAreKeys
<1> QED BY ONLY <1>2, <1>3

\* What a search translates is one contract, and none matches better: the very
\* name before one that is equal but for case and underscores, before the
\* partial match of the least score.
THEOREM SearchTakesBest == Spec => []BestMatchWins
<1>1. ASSUME SelectionInv PROVE BestMatchWins
    <2>1. SUFFICES ASSUME Searched
                   PROVE  /\ Len(translated) <= 1
                          /\ \A k \in DOMAIN translated : \A j \in DOMAIN contracts :
                                Rank(Cname(contracts[translated[k].contract].key))
                                    <= Rank(Cname(contracts[j].key))
        BY DEF BestMatchWins
    <2>2. /\ DOMAIN contracts = Indices /\ DOMAIN translated = 1..Len(translated)
          /\ \A j \in Indices : Rank(Cname(contracts[j].key)) = Ranks[j]
        BY ONLY <1>1, RanksAreRanks
    <2>3. /\ Len(translated) <= 1
          /\ \A k \in 1..Len(translated) :
                translated[k].contract \in Indices /\ IsBest(translated[k].contract)
        BY ONLY <1>1, <2>1 DEF SelectionInv, BestInv
    <2> QED BY ONLY <2>2, <2>3 DEF IsBest
<1> QED BY SpecSelection, <1>1, PTL

\* A search that ends without a translation has no match at all.
THEOREM SearchFindsMatches == Spec => []MatchesAreFound
<1>1. ASSUME SelectionInv PROVE MatchesAreFound
    <2>1. /\ DOMAIN contracts = Indices
          /\ \A j \in Indices : Rank(Cname(contracts[j].key)) = Ranks[j]
        BY ONLY <1>1, RanksAreRanks
    <2>2. Searched /\ stage = "done" /\ translated = <<>> => NoMatch
        BY ONLY <1>1 DEF SelectionInv, BestInv
    <2> QED BY ONLY <2>1, <2>2 DEF MatchesAreFound, NoMatch
<1> QED BY SpecSelection, <1>1, PTL

\* Translating all contracts translates every one of them or fails.
THEOREM AllAreTranslated == Spec => []AllOrError
<1>1. ASSUME SelectionInv PROVE AllOrError
    <2>1. DOMAIN translated = 1..Len(translated) BY ONLY <1>1, RanksAreRanks
    <2> QED BY ONLY <1>1, <2>1 DEF SelectionInv, AllInv, AllOrError
<1> QED BY SpecSelection, <1>1, PTL

LEMMA PrefixOfAppended ==
    ASSUME NEW s \in Seq(Outputs), NEW o \in Outputs
    PROVE  /\ IsPrefix(s, s) /\ IsPrefix(s, Append(s, o))
           /\ \A k \in DOMAIN SubSeq(s, Len(s) + 1, Len(s)) : FALSE
           /\ \A k \in DOMAIN SubSeq(Append(s, o), Len(s) + 1, Len(Append(s, o))) :
                 k = 1 /\ SubSeq(Append(s, o), Len(s) + 1, Len(Append(s, o)))[k] = o
<1> DEFINE t == Append(s, o)
<1>1. /\ t \in Seq(Outputs) /\ Len(t) = Len(s) + 1 /\ Len(s) \in Nat /\ t[Len(s) + 1] = o
      /\ \A k \in 1..Len(s) : t[k] = s[k]
    BY OneMore
<1> HIDE DEF t
<1>2. SubSeq(s, 1, Len(s)) = SubSeq(t, 1, Len(s)) BY ONLY <1>1, s \in Seq(Outputs)
<1>3. IsPrefix(s, s) /\ IsPrefix(s, t) BY ONLY <1>1, <1>2 DEF IsPrefix
<1>4. \A k \in DOMAIN SubSeq(s, Len(s) + 1, Len(s)) : FALSE BY ONLY <1>1, s \in Seq(Outputs)
<1>5. \A k \in DOMAIN SubSeq(t, Len(s) + 1, Len(t)) :
          k = 1 /\ SubSeq(t, Len(s) + 1, Len(t))[k] = o
    BY ONLY <1>1
<1> QED BY ONLY <1>3, <1>4, <1>5 DEF t

\* Every ABI that is written is that of a contract translated under the same
\* identifier, unless that translation failed.
THEOREM AbisStayTranslateds == Spec => []AbisAreTranslateds
<1>1. ASSUME SelectionInv PROVE AbisAreTranslateds
    <2>1. translated \in Seq(Outputs) BY ONLY <1>1 DEF SelectionInv, SelectionType
    <2>2. CASE ~IsMany BY ONLY <2>2 DEF AbisAreTranslateds
    <2>3. CASE abis = translated
        <3>1. /\ IsPrefix(translated, translated)
              /\ \A k \in DOMAIN SubSeq(translated, Len(translated) + 1, Len(translated)) : FALSE
            <4>1. CASE Outputs = {} BY ONLY <2>1, <4>1 DEF IsPrefix
            <4>2. CASE Outputs # {} BY ONLY <2>1, <4>2, PrefixOfAppended
            <4> QED BY ONLY <4>1, <4>2
        <3> QED BY ONLY <2>3, <3>1 DEF AbisAreTranslateds
    <2>4. ASSUME NEW o \in Outputs, LeftAlone(o), stage = "error" PROVE AbisAreTranslateds
        <3>1. abis = Append(translated, o) /\ Convertible(contracts[o.contract])
            BY ONLY <2>4 DEF LeftAlone
        <3>2. /\ IsPrefix(translated, abis)
              /\ \A k \in DOMAIN SubSeq(abis, Len(translated) + 1, Len(abis)) :
                    k = 1 /\ SubSeq(abis, Len(translated) + 1, Len(abis))[k] = o
            BY ONLY <2>1, <3>1, o \in Outputs, PrefixOfAppended
        <3> QED BY ONLY <2>4, <3>1, <3>2 DEF AbisAreTranslateds
    <2>5. IsMany => abis = translated \/ (stage = "error" /\ \E o \in Outputs : LeftAlone(o))
        BY ONLY <1>1 DEF SelectionInv, AbiInv
    <2> QED BY ONLY <2>2, <2>3, <2>4, <2>5
<1> QED BY SpecSelection, <1>1, PTL
=============================================================================
