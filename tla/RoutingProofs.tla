--------------------------- MODULE RoutingProofs ---------------------------
(***************************************************************************)
(* Routing a turn leaves the host as HostSetup describes it, so that the   *)
(* theorems about HostSetup hold here; every decision but the fall-through *)
(* names a provider that is connected when it is made; a prefix that was   *)
(* resolved decides the turn or its provider left; and an image for a      *)
(* model that cannot see it is announced.                                  *)
(***************************************************************************)
EXTENDS Routing, TLAPS

(***************************************************************************)
(* With turns being routed, the host still behaves as HostSetup says.      *)
(***************************************************************************)
THEOREM RoutingKeepsSetup == RoutingSpec => Spec
<1>1. RoutingInit => Init
  BY DEF RoutingInit
<1>2. [RoutingNext]_allVars => [Next]_vars
  BY DEF RoutingNext, allVars, HostStep, ReloadRules, ReadActive, Decide, Warn,
         Forget, Parse
<1> QED
  BY <1>1, <1>2, PTL DEF RoutingSpec, Spec

(***************************************************************************)
(* What each layer picks is a provider of the pool.                        *)
(***************************************************************************)
LEMMA HonouredConnected ==
  ASSUME NEW set, NEW among, NEW k \in Honoured(set, among)
  PROVE  k.provider \in among
  BY DEF Honoured, Pick

LEMMA VisionConnected ==
  ASSUME NEW image, NEW p, NEW m, NEW among, NEW k \in Vision(image, p, m, among)
  PROVE  k.provider \in among
  BY DEF Vision, FirstModel, Pick

LEMMA RuledConnected ==
  ASSUME NEW list, NEW sent, NEW among, NEW k \in Ruled(list, sent, among)
  PROVE  k.provider \in among
  BY DEF Ruled, RuleFires

LEMMA OfTierConnected ==
  ASSUME NEW tier, NEW p, NEW among, NEW k \in OfTier(tier, p, among)
  PROVE  k.provider \in among
  BY DEF OfTier, FirstModel, Pick

LEMMA ClassifiedConnected ==
  ASSUME NEW kind, NEW p, NEW m, NEW among, NEW k \in Classified(kind, p, m, among)
  PROVE  k.provider \in among
<1>1. PICK i : k \in OfTier(Tiers(kind)[i], p, among)
  BY DEF Classified
<1> QED
  BY <1>1, OfTierConnected

(***************************************************************************)
(* Whatever the catalogs, the rules and the other steps of the program: a  *)
(* decision by override, redirect, rule or classifier names a provider     *)
(* that is in the pool.                                                    *)
(***************************************************************************)
THEOREM DecisionsAreConnected == RoutingSpec => DecidedIsConnected
<1>1. ASSUME Decide, decision'.reason # "default"
      PROVE  decision'.provider \in pool
  <2> DEFINE among == pool
  <2>1. decision' \in Decisions(overrides, prompt, activeRead, modelRead', among,
                                routingRules, heuristics)
    BY <1>1 DEF Decide
  <2>2. PICK picks, reason :
          /\ decision' \in Decided(picks, reason)
          /\ \A k \in picks : reason # "default" => k.provider \in among
    BY <2>1, HonouredConnected, VisionConnected, RuledConnected,
       ClassifiedConnected DEF Decisions
  <2> QED
    BY <1>1, <2>2 DEF Decided
<1>2. ASSUME [RoutingNext]_allVars, step = "read", step' = "decided"
      PROVE  Decide
  BY <1>2 DEF RoutingNext, allVars, routing, HostStep, ReloadRules, ReadActive, Warn, Parse
<1>3. [RoutingNext]_allVars =>
        ((step = "read" /\ step' = "decided" /\ decision'.reason # "default")
           => decision'.provider \in pool)
  BY <1>1, <1>2
<1> QED
  BY <1>3, PTL DEF RoutingSpec, DecidedIsConnected

-----------------------------------------------------------------------------
(***************************************************************************)
(* A prefix resolves to a provider of the pool, and the override that      *)
(* Router::pick honours is that provider.                                  *)
(***************************************************************************)
LEMMA OverridesConnected ==
  ASSUME NEW sent, NEW among, NEW o \in Overrides(sent, among)
  PROVE  o.provider \in among
<1>1. ASSUME NEW name, o \in Aliases(name, among) PROVE o.provider \in among
  <2> DEFINE hits == UNION {{<<p, a>> : a \in {b \in Catalog[p].aliases : b[1] = name}} :
                              p \in among}
  <2>1. PICK h \in hits : o = Pick(h[1], h[2][2])
    BY <1>1 DEF Aliases
  <2>2. h[1] \in among
    BY <2>1
  <2> QED
    BY <2>1, <2>2 DEF Pick
<1>2. \A p \in among : \A m : Pick(p, m).provider \in among
  BY DEF Pick
<1>3. CASE sent.prefix = "pair"
  BY <1>2, <1>3 DEF Overrides
<1>4. CASE sent.prefix = "word"
  BY <1>1, <1>2, <1>4 DEF Overrides
<1>5. CASE sent.prefix # "pair" /\ sent.prefix # "word"
  BY <1>5 DEF Overrides
<1> QED
  BY <1>3, <1>4, <1>5

LEMMA HonouredIsAsked ==
  ASSUME NEW set, NEW among
  PROVE  /\ \A k \in Honoured(set, among) : \E o \in set : k.provider = o.provider
         /\ Honoured(set, among) = {} => \A o \in set : o.provider \notin among
<1> DEFINE Sent(o) == IF o.model = "default"
                      THEN Pick(o.provider, Catalog[o.provider].standard) ELSE o
<1>1. Honoured(set, among) = {Sent(o) : o \in {x \in set : x.provider \in among}}
  BY DEF Honoured
<1>2. \A o : Sent(o).provider = o.provider
  BY DEF Pick
<1> HIDE DEF Sent
<1>3. ASSUME NEW o \in set, o.provider \in among PROVE Sent(o) \in Honoured(set, among)
  BY <1>1, <1>3
<1> QED
  BY <1>1, <1>2, <1>3

(***************************************************************************)
(* Until the decision the provider of the override is in the pool, or has  *)
(* left since the prompt was parsed.                                       *)
(***************************************************************************)
PrefixInv ==
  /\ step \in {"parsed", "read"} => \A o \in overrides : o.provider \in pool \cup left
  /\ PrefixDecides

LEMMA PrefixDecided ==
  ASSUME PrefixInv, Decide
  PROVE  PrefixInv'
<1>1. /\ step = "read" /\ step' = "decided" /\ UNCHANGED <<overrides, left>>
      /\ decision' \in Decisions(overrides, prompt, activeRead, modelRead', pool,
                                 routingRules, heuristics)
  BY DEF Decide
<1>2. ASSUME overrides # {}
      PROVE  \E o \in overrides :
               \/ decision'.reason = "override" /\ decision'.provider = o.provider
               \/ o.provider \in left
  <2>1. CASE Honoured(overrides, pool) = {}
    <3>1. PICK o \in overrides : TRUE
      BY <1>2
    <3>2. o.provider \in left
      BY <1>1, <2>1, HonouredIsAsked DEF PrefixInv
    <3> QED
      BY <3>2
  <2>2. CASE Honoured(overrides, pool) # {}
    <3>1. decision' \in Decided(Honoured(overrides, pool), "override")
      BY <1>1, <2>2 DEF Decisions
    <3>2. PICK k \in Honoured(overrides, pool) :
            decision'.reason = "override" /\ decision'.provider = k.provider
      BY <3>1 DEF Decided
    <3> QED
      BY <3>2, HonouredIsAsked
  <2> QED
    BY <2>1, <2>2
<1> QED
  BY <1>1, <1>2 DEF PrefixInv, PrefixDecides

LEMMA PrefixStep ==
  ASSUME PrefixInv, [RoutingNext]_allVars
  PROVE  PrefixInv'
<1>1. CASE HostStep
  <2>1. /\ step' = step /\ overrides' = overrides /\ decision' = decision
        /\ step # "idle" => left' = left \cup (pool \ pool')
    BY <1>1 DEF HostStep, turn
  <2> QED
    BY <2>1 DEF PrefixInv, PrefixDecides
<1>2. CASE ReloadRules
  BY <1>2 DEF ReloadRules, vars, host, turn, PrefixInv, PrefixDecides
<1>3. CASE ReadActive
  BY <1>3 DEF ReadActive, vars, host, PrefixInv, PrefixDecides
<1>4. CASE Decide
  BY <1>4, PrefixDecided
<1>5. CASE Warn
  BY <1>5 DEF Warn, PrefixInv, PrefixDecides
<1>6. ASSUME NEW sent \in Prompts, Parse(sent) PROVE PrefixInv'
  <2>1. step' = "parsed" /\ overrides' = Overrides(sent, pool) /\ pool' = pool
    BY <1>6 DEF Parse, vars, host
  <2> QED
    BY <2>1, OverridesConnected DEF PrefixInv, PrefixDecides
<1>7. CASE UNCHANGED allVars
  BY <1>7 DEF allVars, vars, host, routing, turn, PrefixInv, PrefixDecides
<1> QED
  BY <1>1, <1>2, <1>3, <1>4, <1>5, <1>6, <1>7 DEF RoutingNext

(***************************************************************************)
(* A prefix that parse_at_prefix resolved decides the turn in Router::pick,*)
(* whatever was connected, removed or switched in between, unless its own  *)
(* provider left the pool.                                                 *)
(***************************************************************************)
THEOREM PrefixesDecide == RoutingSpec => []PrefixDecides
<1>1. RoutingInit => PrefixInv
  BY DEF RoutingInit, PrefixInv, PrefixDecides
<1>2. PrefixInv /\ [RoutingNext]_allVars => PrefixInv'
  BY PrefixStep
<1>3. PrefixInv => PrefixDecides
  BY DEF PrefixInv
<1> QED
  BY <1>1, <1>2, <1>3, PTL DEF RoutingSpec

-----------------------------------------------------------------------------
(***************************************************************************)
(* A redirect of an image goes to a model that sees.                       *)
(***************************************************************************)
SeesInv ==
  step = "decided" /\ decision.reason = "modality"
    => Sees(decision.provider, decision.model)

LEMMA VisionSees ==
  ASSUME NEW image, NEW p, NEW m, NEW among, NEW k \in Vision(image, p, m, among)
  PROVE  Sees(k.provider, k.model)
<1> DEFINE suitable == {x \in Range(Catalog[p].models) : x.vision}
<1>1. k \in FirstModel(p, suitable)
  BY DEF Vision
<1>2. PICK i \in DOMAIN Catalog[p].models :
        Catalog[p].models[i] \in suitable /\ k = Pick(p, Catalog[p].models[i].id)
  BY <1>1 DEF FirstModel
<1>3. Catalog[p].models[i].vision
  BY <1>2
<1>4. k.provider = p /\ k.model = Catalog[p].models[i].id
  BY <1>2 DEF Pick
<1> QED
  BY <1>2, <1>3, <1>4 DEF Sees

LEMMA SeesStep ==
  ASSUME SeesInv, [RoutingNext]_allVars
  PROVE  SeesInv'
<1>1. CASE Decide
  <2>1. decision' \in Decisions(overrides, prompt, activeRead, modelRead', pool,
                                routingRules, heuristics)
    BY <1>1 DEF Decide
  <2>2. \E picks, reason :
          /\ decision' \in Decided(picks, reason)
          /\ reason = "modality" =>
               picks = Vision(prompt.image, activeRead, modelRead', pool)
    BY <2>1 DEF Decisions
  <2>3. PICK picks, reason :
          /\ decision' \in Decided(picks, reason)
          /\ reason = "modality" =>
               picks = Vision(prompt.image, activeRead, modelRead', pool)
    BY <2>2
  <2>4. PICK k \in picks : decision' = [provider |-> k.provider, model |-> k.model,
                                        reason |-> reason]
    BY <2>3 DEF Decided
  <2> QED
    BY <2>3, <2>4, VisionSees DEF SeesInv
<1>2. CASE HostStep \/ ReloadRules
  BY <1>2 DEF HostStep, ReloadRules, turn, SeesInv
<1>3. CASE ReadActive \/ Warn \/ \E sent \in Prompts : Parse(sent)
  BY <1>3 DEF ReadActive, Warn, Parse, SeesInv
<1>4. CASE UNCHANGED allVars
  BY <1>4 DEF allVars, routing, turn, SeesInv
<1> QED
  BY <1>1, <1>2, <1>3, <1>4 DEF RoutingNext

(***************************************************************************)
(* When a routed image is about to go to a model of the pool, the turn     *)
(* warns exactly if that model cannot see (run_turn_inner's third look at  *)
(* the pool).                                                              *)
(***************************************************************************)
THEOREM BlindModelsAreAnnounced == RoutingSpec => BlindIsAnnounced
<1>1. RoutingInit => SeesInv
  BY DEF RoutingInit, SeesInv
<1>2. SeesInv /\ [RoutingNext]_allVars => SeesInv'
  BY SeesStep
<1>3. SeesInv /\ [RoutingNext]_allVars =>
        ((step = "decided" /\ step' = "idle" /\ prompt.image
            /\ decision.provider \in pool
            /\ decision.model \in ModelIds(decision.provider))
           => (warned' <=> ~Sees(decision.provider, decision.model)))
  <2> SUFFICES ASSUME SeesInv, [RoutingNext]_allVars, step = "decided", step' = "idle",
                      prompt.image, decision.provider \in pool,
                      decision.model \in ModelIds(decision.provider)
               PROVE  warned' <=> ~Sees(decision.provider, decision.model)
    OBVIOUS
  <2>1. Warn
    BY DEF RoutingNext, allVars, routing, HostStep, ReloadRules, ReadActive, Decide, Parse
  <2>2. warned' = (decision.reason # "modality"
                    /\ ~Sees(decision.provider, decision.model))
    BY <2>1 DEF Warn
  <2> QED
    BY <2>2 DEF SeesInv
<1> QED
  BY <1>1, <1>2, <1>3, PTL DEF RoutingSpec, BlindIsAnnounced
=============================================================================
