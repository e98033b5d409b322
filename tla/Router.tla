------------------------------- MODULE Router -------------------------------
(***************************************************************************)
(* The layers that route a turn (otto-host/src/router/): pure functions of *)
(* the prompt, the providers of the pool and the active provider and       *)
(* model.  Every layer is the set of its possible picks: none if the turn  *)
(* falls through to the next layer, several if the order of the pool, a    *)
(* hash map, decides.  A pick is a provider and a model.                   *)
(***************************************************************************)
EXTENDS Sequences, SequencesExt, FiniteSets

CONSTANT Catalog   \* capabilities and aliases of each provider

(***************************************************************************)
(* Catalog[p].models is the list of models, best first, Catalog[p].standard*)
(* the id of the default one, and Catalog[p].aliases a set of pairs of     *)
(* short name and model id.  ProviderCapabilities::new demands a default   *)
(* that is in the list.                                                    *)
(***************************************************************************)
ModelIds(p) == {Catalog[p].models[i].id : i \in DOMAIN Catalog[p].models}

ASSUME CatalogAssumption ==
  \A p \in DOMAIN Catalog :
    /\ Catalog[p].standard \in ModelIds(p)
    /\ \A a \in Catalog[p].aliases : a[2] \in ModelIds(p)

Pick(p, m) == [provider |-> p, model |-> m]

Sees(p, m) ==
  \E i \in DOMAIN Catalog[p].models :
    Catalog[p].models[i].id = m /\ Catalog[p].models[i].vision
Tier(p, m) ==
  {Catalog[p].models[i].tier : i \in {j \in DOMAIN Catalog[p].models :
                                        Catalog[p].models[j].id = m}}

(***************************************************************************)
(* The first model of a provider that is among the suitable ones, if there *)
(* is one.                                                                 *)
(***************************************************************************)
FirstModel(p, suitable) ==
  LET fit == {i \in DOMAIN Catalog[p].models : Catalog[p].models[i] \in suitable}
  IN {Pick(p, Catalog[p].models[i].id) : i \in {i \in fit : \A j \in fit : i <= j}}

(***************************************************************************)
(* Layer 1, parse_at_prefix: `@provider:model', `@provider', or an alias   *)
(* that exactly one connected provider has.  A provider's name hides an    *)
(* alias, and `@@' escapes.  Only a resolved prefix is cut off the prompt. *)
(***************************************************************************)
Aliases(name, pool) ==
  LET hits == UNION {{<<p, a>> : a \in {b \in Catalog[p].aliases : b[1] = name}} :
                       p \in pool}
  IN IF Cardinality(hits) = 1 THEN {Pick(h[1], h[2][2]) : h \in hits} ELSE {}

Overrides(prompt, pool) ==
  CASE prompt.prefix = "pair" ->
         IF prompt.name \in pool /\ prompt.model \in ModelIds(prompt.name)
         THEN {Pick(prompt.name, prompt.model)} ELSE {}
    [] prompt.prefix = "word" ->
         IF prompt.name \in pool THEN {Pick(prompt.name, "default")}
         ELSE Aliases(prompt.name, pool)
    [] OTHER -> {}

(***************************************************************************)
(* In Router::pick an override counts if its provider is still connected.  *)
(***************************************************************************)
HonouredUnchecked(overrides, pool) ==             \* mutant: stale override used
  {IF o.model = "default" THEN Pick(o.provider, Catalog[o.provider].standard)
   ELSE o : o \in overrides}
Honoured(overrides, pool) ==
  {IF o.model = "default" THEN Pick(o.provider, Catalog[o.provider].standard)
   ELSE o : o \in {x \in overrides : x.provider \in pool}}

(***************************************************************************)
(* Layer 2, pick_vision_capable: for an image, the first model of the      *)
(* active provider that sees, if the active model does not.                *)
(***************************************************************************)
Vision(image, p, m, pool) ==
  IF image /\ p \in pool /\ ~Sees(p, m)
  THEN FirstModel(p, {x \in Range(Catalog[p].models) : x.vision}) ELSE {}

(***************************************************************************)
(* Layer 3, RoutingRules::evaluate: the first rule that matches and whose  *)
(* provider is connected.  What a rule matches is given as the set of      *)
(* texts and of image flags that satisfy all its predicates.               *)
(***************************************************************************)
RuleFires(rule, prompt, pool) ==
  /\ prompt.text \in rule.texts /\ prompt.image \in rule.images
  /\ rule.use.provider \in pool
Ruled(rules, prompt, pool) ==
  LET firing == {i \in DOMAIN rules : RuleFires(rules[i], prompt, pool)}
  IN {rules[i].use : i \in {i \in firing : \A j \in firing : i <= j}}

(***************************************************************************)
(* Layer 4, classify and pick_for_kind: a text is of the kind "coding",    *)
(* "short" or "other"; per tier the active provider comes first, then the  *)
(* others in the order of the pool.                                        *)
(***************************************************************************)
Tiers(kind) ==
  CASE kind = "short" -> <<"free", "cheap">>
    [] kind = "coding" -> <<"premium", "standard">>
    [] OTHER -> <<>>

OfTier(tier, p, pool) ==
  LET of(q) == FirstModel(q, {x \in Range(Catalog[q].models) : x.tier = tier})
      own == IF p \in pool THEN of(p) ELSE {}
  IN IF own # {} THEN own ELSE UNION {of(q) : q \in pool \ {p}}

Classified(kind, p, m, pool) ==
  IF p \in pool /\ Tier(p, m) \cap Range(Tiers(kind)) # {} THEN {}
  ELSE LET found == {i \in DOMAIN Tiers(kind) : OfTier(Tiers(kind)[i], p, pool) # {}}
       IN UNION {OfTier(Tiers(kind)[i], p, pool) :
                   i \in {i \in found : \A j \in found : i <= j}}

(***************************************************************************)
(* Router::pick.                                                           *)
(***************************************************************************)
Decided(picks, reason) ==
  {[provider |-> k.provider, model |-> k.model, reason |-> reason] : k \in picks}

DecisionsImageFirst(overrides, prompt, p, m, pool, rules, heuristics) ==
  LET honoured == Honoured(overrides, pool)       \* mutant: layers swapped
      seeing == Vision(prompt.image, p, m, pool)
  IN IF seeing # {} THEN Decided(seeing, "modality")
     ELSE IF honoured # {} THEN Decided(honoured, "override")
     ELSE Decided({Pick(p, m)}, "default")
Decisions(overrides, prompt, p, m, pool, rules, heuristics) ==
  LET honoured == Honoured(overrides, pool)
      seeing == Vision(prompt.image, p, m, pool)
      ruled == Ruled(rules, prompt, pool)
      classified == IF heuristics THEN Classified(prompt.text, p, m, pool) ELSE {}
  IN IF honoured # {} THEN Decided(honoured, "override")
     ELSE IF seeing # {} THEN Decided(seeing, "modality")
     ELSE IF ruled # {} THEN Decided(ruled, "rule")
     ELSE IF classified # {} THEN Decided(classified, "heuristic")
     ELSE Decided({Pick(p, m)}, "default")

=============================================================================
