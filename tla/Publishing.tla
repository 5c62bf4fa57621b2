----------------------------- MODULE Publishing -----------------------------
(***************************************************************************)
(* Prices and prompts: what is drafted and then made live (pricing-admin.ts, *)
(* prompts-admin.ts).  One plan, one line of packs, one prompt.  A row is  *)
(* known by its place in its table; one that was deleted stays as "gone".  *)
(***************************************************************************)
EXTENDS Team

CONSTANTS
  Prices,  \* the prices people choose
  Bodies   \* the wordings people write

VARIABLES
  plan,    \* the plans rows: [version, status, price]
  pack,    \* the topup_packs rows: [status, replaces, retires]; 0 replaces nothing
  signed,  \* the plan rows a workspace is on
  prompt   \* the prompt_templates rows, whose version is their place: [body, live]

publishingVars == << plan, pack, signed, prompt >>

PublishingInit ==
  /\ plan = << [ version |-> 1, status |-> "published", price |-> CHOOSE price \in Prices : TRUE ] >>
  /\ pack = << [ status |-> "published", replaces |-> 0, retires |-> FALSE ] >>
  /\ signed = {1}
  /\ prompt = << [ body |-> CHOOSE body \in Bodies : TRUE, live |-> TRUE ] >>

Rows(table, status) == { r \in DOMAIN table : table[r].status = status }

Gone(row) == [row EXCEPT !.status = "gone"]

----------------------------------------------------------------------------
(* Plan drafts.                                                             *)

\* The published version everybody is sold.
LivePlan == CHOOSE r \in Rows(plan, "published") :
              \A s \in Rows(plan, "published") : plan[s].version <= plan[r].version

\* Mutation of PlanDrafts: the status of the row is not looked at.
AnyPlan == Rows(plan, "draft") \union Rows(plan, "published")

PlanDrafts == Rows(plan, "draft")

\* A draft that was found, or none (0).
SomeDraft(r) == IF PlanDrafts = {} THEN r = 0 ELSE r \in PlanDrafts

PriceOpens(q, price) ==
  /\ Somebody("pricing.edit")
  /\ \E r \in DOMAIN plan \union {0} :
       SomeDraft(r) /\ Opens(q, "price", {"plan"}, price, [ live |-> plan[LivePlan], draft |-> r ])
  /\ UNCHANGED publishingVars

DeletesPlan(r) ==
  /\ plan[r].status # "gone" /\ r \notin signed
  /\ plan' = [plan EXCEPT ![r] = Gone(@)]

\* Edited back to what is live, the draft goes.  Otherwise the one that was
\* found is rewritten, or one is created: never two rows of one version.
Price(q) ==
  LET saw == request[q].saw
      new == [ version |-> saw.live.version + 1, status |-> "draft", price |-> request[q].arg ] IN
  /\ Doing(q, "price")
  /\ IF new.price = saw.live.price
     THEN IF saw.draft = 0 THEN UNCHANGED plan ELSE DeletesPlan(saw.draft)
     ELSE /\ \A r \in DOMAIN plan \ {saw.draft} : plan[r].version = new.version => plan[r].status = "gone"
          /\ IF saw.draft = 0 THEN plan' = Append(plan, new)
             ELSE plan[saw.draft].status # "gone" /\ plan' = [plan EXCEPT ![saw.draft] = new]
  /\ Writes(q, {"plan"}) /\ UNCHANGED << pack, signed, prompt >>

DiscardOpens(q, r) ==
  /\ Somebody("pricing.edit") /\ r \in PlanDrafts
  /\ Opens(q, "discard", {"plan"}, r, NoRequest)
  /\ UNCHANGED publishingVars

Discard(q) ==
  /\ Doing(q, "discard") /\ DeletesPlan(request[q].arg)
  /\ Writes(q, {"plan"}) /\ UNCHANGED << pack, signed, prompt >>

\* A workspace goes on the plan as it is sold.
SignsUp ==
  /\ Acts("sign up") /\ signed' = signed \union {LivePlan}
  /\ UNCHANGED << request, plan, pack, prompt >>

----------------------------------------------------------------------------
(* Pack drafts.                                                             *)

\* A new pack (r = 0), a change to a live one, or its end.
PackOpens(q, r, retires) ==
  /\ Somebody("pricing.edit") /\ r \in Rows(pack, "published") \union {0} /\ (retires => r # 0)
  /\ Opens(q, "pack", {"pack"}, [ replaces |-> r, retires |-> retires ],
           { d \in Rows(pack, "draft") : r # 0 /\ pack[d].replaces = r })
  /\ UNCHANGED publishingVars

\* The drafts for the same pack that were found are deleted, if still drafts.
Pack(q) ==
  LET arg == request[q].arg
      kept == [ r \in DOMAIN pack |->
                  IF r \in request[q].saw \cap Rows(pack, "draft") THEN Gone(pack[r]) ELSE pack[r] ] IN
  /\ Doing(q, "pack")
  /\ pack' = Append(kept, [ status |-> "draft", replaces |-> arg.replaces, retires |-> arg.retires ])
  /\ Writes(q, {"pack"}) /\ UNCHANGED << plan, signed, prompt >>

UnpackOpens(q, r) ==
  /\ Somebody("pricing.edit") /\ r \in Rows(pack, "draft")
  /\ Opens(q, "unpack", {"pack"}, r, NoRequest)
  /\ UNCHANGED publishingVars

Unpack(q) ==
  LET r == request[q].arg IN
  /\ Doing(q, "unpack") /\ pack[r].status # "gone"
  /\ pack' = [pack EXCEPT ![r] = Gone(@)]
  /\ Writes(q, {"pack"}) /\ UNCHANGED << plan, signed, prompt >>

----------------------------------------------------------------------------
(* Publishing: one at a time, everything or nothing.                        *)

\* The lock is taken and the drafts are read.
PublishOpens(q) ==
  /\ Somebody("pricing.publish") /\ \A p \in Requests : ~Doing(p, "publish")
  /\ PlanDrafts # {} \/ Rows(pack, "draft") # {}
  /\ Opens(q, "publish", {"plan", "pack"}, NoRequest, [ plans |-> PlanDrafts, packs |-> Rows(pack, "draft") ])
  /\ UNCHANGED publishingVars

\* Every draft is newer than what is live, and the draft before it.
InOrder(drafts) ==
  \A r \in drafts : plan[r].version > plan[LivePlan].version

Publish(q) ==
  LET saw == request[q].saw IN
  /\ Doing(q, "publish") /\ InOrder(saw.plans)
  /\ \A r \in saw.plans : plan[r].status # "gone"
  /\ \A r \in saw.packs : pack[r].status # "gone"
  /\ plan' = [ r \in DOMAIN plan |-> IF r \in saw.plans THEN [plan[r] EXCEPT !.status = "published"] ELSE plan[r] ]
  /\ pack' = [ r \in DOMAIN pack |->
       CASE r \in saw.packs -> [pack[r] EXCEPT !.status = IF pack[r].retires THEN "retired" ELSE "published"]
         [] \E d \in saw.packs : pack[d].replaces = r -> [pack[r] EXCEPT !.status = "retired"]
         [] OTHER -> pack[r] ]
  /\ Writes(q, {"plan", "pack"}) /\ UNCHANGED << signed, prompt >>

----------------------------------------------------------------------------
(* Prompts.                                                                 *)

LivePrompts == { v \in DOMAIN prompt : prompt[v].live }

\* A new wording, and whether it goes live at once.
PromptOpens(q, body, goesLive) ==
  /\ Somebody("prompts.edit")
  /\ \A v \in LivePrompts : (\A u \in LivePrompts : u <= v) => prompt[v].body # body
  /\ Opens(q, "prompt", {"prompt"}, [ version |-> Len(prompt) + 1, body |-> body, live |-> goesLive ], NoRequest)
  /\ UNCHANGED publishingVars

\* A version that is already live is left as it is.
ActivateOpens(q, v) ==
  /\ Somebody("prompts.edit") /\ v \in DOMAIN prompt \ LivePrompts
  /\ Opens(q, "activate", {"prompt"}, [ version |-> v, body |-> prompt[v].body, live |-> TRUE ], NoRequest)
  /\ UNCHANGED publishingVars

\* The statement that takes the live version off sees what is live by now.
Snapshots(q) ==
  /\ request[q].doing \in {"prompt", "activate"} /\ request[q].saw = NoRequest
  /\ Reads(q, [ live |-> LivePrompts ]) /\ UNCHANGED publishingVars

\* The versions a change takes off.
Retires(q) == IF request[q].arg.live THEN request[q].saw.live ELSE {}

\* The version that is added is the next one, or the request fails.
Prompt(q) ==
  LET arg == request[q].arg
      off == [ v \in DOMAIN prompt |-> IF v \in Retires(q) THEN [prompt[v] EXCEPT !.live = FALSE] ELSE prompt[v] ] IN
  /\ request[q].doing \in {"prompt", "activate"} /\ request[q].saw # NoRequest
  /\ IF Doing(q, "activate") THEN prompt' = [off EXCEPT ![arg.version].live = TRUE]
     ELSE /\ arg.version = Len(prompt) + 1
          /\ prompt' = Append(off, [ body |-> arg.body, live |-> arg.live ])
  /\ Writes(q, {"prompt"}) /\ UNCHANGED << plan, pack, signed >>

----------------------------------------------------------------------------
\* The database refuses it, the version moved on, or the connection is lost.
RollsBack(q) ==
  /\ request[q].doing \in {"price", "discard", "pack", "unpack", "publish", "prompt", "activate"}
  /\ GivesUp(q) /\ UNCHANGED publishingVars

PublishingStep ==
  \/ \E q \in Starting("price"), price \in Prices : PriceOpens(q, price)
  \/ \E q \in Starting("discard"), r \in DOMAIN plan : DiscardOpens(q, r)
  \/ \E q \in Starting("pack"), r \in DOMAIN pack \union {0}, retires \in BOOLEAN : PackOpens(q, r, retires)
  \/ \E q \in Starting("unpack"), r \in DOMAIN pack : UnpackOpens(q, r)
  \/ \E q \in Starting("publish") : PublishOpens(q)
  \/ \E q \in Starting("prompt"), body \in Bodies, goesLive \in BOOLEAN : PromptOpens(q, body, goesLive)
  \/ \E q \in Starting("activate"), v \in DOMAIN prompt : ActivateOpens(q, v)
  \/ \E q \in Requests :
       Price(q) \/ Discard(q) \/ Pack(q) \/ Unpack(q) \/ Publish(q) \/ Snapshots(q) \/ Prompt(q) \/ RollsBack(q)
  \/ SignsUp
=============================================================================
