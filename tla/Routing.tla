------------------------------ MODULE Routing ------------------------------
(***************************************************************************)
(* A turn is routed (Host::run_turn_inner up to its first iteration) while *)
(* the TUI goes on connecting, switching and disconnecting providers: the  *)
(* turn looks at the pool for the prefix, at the active provider, at the   *)
(* model, at the pool again to decide and a third time to warn, each under *)
(* a lock of its own.  HostSetup is the other side.                        *)
(***************************************************************************)
EXTENDS HostSetup, Router

CONSTANTS
  Prompts,    \* what the user may send
  RuleSets,   \* the contents of routing.toml that parse
  Model       \* the model ids

ASSUME RoutingAssumption ==
  /\ DOMAIN Catalog = Provider
  /\ \A r \in RuleSets : \A i \in DOMAIN r : r[i].use.provider \in Provider

VARIABLES
  routingRules, \* Host::routing_rules
  heuristics,   \* RoutingRules::heuristics
  step,         \* where the turn is
  prompt,       \* what was sent
  overrides,    \* the override its prefix resolved to: a set of at most one
  activeRead,   \* the active provider it read
  modelRead,    \* the model it read
  decision,     \* what was decided
  warned,       \* ModalityWarning was sent
  left          \* providers that left the pool while the turn was routed (history variable)

rulesVars == <<routingRules, heuristics>>
turn == <<prompt, overrides, activeRead, modelRead, decision, warned>>
routing == <<rulesVars, turn, step, left>>
allVars == <<vars, routing>>

Undecided == [provider |-> None, model |-> None, reason |-> "none"]
NoPrompt == CHOOSE p \in Prompts : TRUE

RoutingInit ==
  /\ Init
  /\ routingRules \in RuleSets /\ heuristics \in BOOLEAN
  /\ step = "idle" /\ prompt = NoPrompt /\ overrides = {}
  /\ activeRead = None /\ modelRead = None /\ decision = Undecided
  /\ warned = FALSE /\ left = {}

(***************************************************************************)
(* The event loop, and the drain of a /disconnect, act on the host.        *)
(***************************************************************************)
HostStep ==
  /\ Next
  /\ left' = IF step = "idle" THEN {} ELSE left \cup (pool \ pool')
  /\ UNCHANGED <<rulesVars, turn, step>>

(***************************************************************************)
(* /route reload: a file that does not parse leaves the rules as they are. *)
(***************************************************************************)
ReloadRules ==
  /\ pc = "loop" /\ up
  /\ routingRules' \in RuleSets /\ heuristics' \in BOOLEAN
  /\ UNCHANGED <<vars, turn, step, left>>

(***************************************************************************)
(* The turn: parse_at_prefix under the first look at the pool.             *)
(***************************************************************************)
Parse(sent) ==
  /\ step = "idle" /\ pc = "loop" /\ up
  /\ step' = "parsed" /\ prompt' = sent
  /\ overrides' = Overrides(sent, pool)
  /\ warned' = FALSE /\ left' = {}
  /\ UNCHANGED <<vars, rulesVars, activeRead, modelRead, decision>>

ReadActive ==
  /\ step = "parsed" /\ step' = "read"
  /\ activeRead' = active
  /\ UNCHANGED <<vars, rulesVars, prompt, overrides, modelRead, decision, warned,
                 left>>

(***************************************************************************)
(* current_model is whatever /model or the start left there; TurnWorkers   *)
(* follows it.                                                             *)
(***************************************************************************)
Decide ==
  /\ step = "read" /\ step' = "decided"
  /\ modelRead' \in Model
  /\ decision' \in Decisions(overrides, prompt, activeRead, modelRead', pool,
                             routingRules, heuristics)
  /\ UNCHANGED <<vars, rulesVars, prompt, overrides, activeRead, warned, left>>

(***************************************************************************)
(* The third look at the pool; then the turn begins to iterate, and what   *)
(* it has read is forgotten here.                                          *)
(***************************************************************************)
Forget ==
  /\ prompt' = NoPrompt /\ overrides' = {} /\ decision' = Undecided
  /\ activeRead' = None /\ modelRead' = None
  /\ UNCHANGED <<vars, rulesVars, left>>

WarnOfDefaultOnly ==                              \* mutant: other reasons unchecked
  /\ step = "decided" /\ step' = "idle"
  /\ warned' = /\ prompt.image /\ decision.reason = "default"
               /\ decision.provider \in pool
               /\ decision.model \in ModelIds(decision.provider)
               /\ ~Sees(decision.provider, decision.model)
  /\ Forget
Warn ==
  /\ step = "decided" /\ step' = "idle"
  /\ warned' = /\ prompt.image /\ decision.reason # "modality"
               /\ decision.provider \in pool
               /\ decision.model \in ModelIds(decision.provider)
               /\ ~Sees(decision.provider, decision.model)
  /\ Forget

RoutingNext ==
  \/ HostStep \/ ReloadRules \/ ReadActive \/ Decide \/ Warn
  \/ \E sent \in Prompts : Parse(sent)

RoutingSpec == RoutingInit /\ [][RoutingNext]_allVars

-----------------------------------------------------------------------------
(***************************************************************************)
(* Only the fall-through to the active provider may name a provider that   *)
(* is gone: an override, a redirect, a rule or the classifier never does   *)
(* at the moment of the decision, whatever was disconnected since the      *)
(* prompt was parsed.                                                      *)
(***************************************************************************)
DecidedIsConnected ==
  [][(step = "read" /\ step' = "decided" /\ decision'.reason # "default")
       => decision'.provider \in pool]_allVars

(***************************************************************************)
(* A prefix that was resolved, and therefore cut off the prompt, decides   *)
(* the turn, unless its provider left in the meantime.                     *)
(***************************************************************************)
PrefixDecides ==
  (step = "decided" /\ overrides # {})
    => \E o \in overrides :
         \/ decision.reason = "override" /\ decision.provider = o.provider
         \/ o.provider \in left

(***************************************************************************)
(* An image that goes to a model of the pool which cannot see is announced *)
(* by a warning.                                                           *)
(***************************************************************************)
BlindIsAnnounced ==
  [][(step = "decided" /\ step' = "idle" /\ prompt.image
        /\ decision.provider \in pool
        /\ decision.model \in ModelIds(decision.provider))
       => (warned' <=> ~Sees(decision.provider, decision.model))]_allVars
=============================================================================
