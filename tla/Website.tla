------------------------------ MODULE Website ------------------------------
(***************************************************************************)
(* The marketing site: entries with a draft and a live copy, publishing    *)
(* them (store.ts), and the build that puts what was published on the      *)
(* server (build.ts, deploy/website-publish.sh).                           *)
(***************************************************************************)
EXTENDS Team

CONSTANTS
  Entries,  \* testimonials, FAQ items, posts
  Texts,    \* what they may say; 0 is nothing
  OnSite    \* [Entries -> what the site says at the start]

ASSUME WebsiteAssumption ==
  Texts \subseteq Nat \ {0} /\ OnSite \in [ Entries -> Texts \union {0} ]

VARIABLES
  entry,    \* the site_entries rows: [draft, live, id]; id counts the rows of a key
  publish,  \* the site_publishes rows: [status, content]
  script,   \* the script of each publish: "waiting" for the lock, "running",
            \* "swapped" (it answers 0), "stopped" (it answers an error), "over"
  watched,  \* the publishes whose script this panel process waits for
  site      \* what nginx serves

websiteVars == << entry, publish, script, watched, site >>

NoEntry(id) == [ draft |-> 0, live |-> 0, id |-> id ]

WebsiteInit ==
  /\ entry = [ e \in Entries |->
       [ draft |-> OnSite[e], live |-> OnSite[e], id |-> IF OnSite[e] = 0 THEN 0 ELSE 1 ] ]
  /\ publish = << >> /\ script = << >> /\ watched = {}
  /\ site = OnSite

There(e) == entry[e].draft # 0 \/ entry[e].live # 0

----------------------------------------------------------------------------
(* Editing.  A row is read, and then written in a transaction.              *)

\* Something new is added under a key of its own; what is there is changed.
SaveOpens(q, e, text) ==
  /\ Somebody("website.edit") /\ (There(e) \/ entry[e].id = 0) /\ entry[e].draft # text
  /\ Opens(q, "save", {}, [ on |-> e, text |-> text ], NoRequest)
  /\ UNCHANGED websiteVars

\* The row is created if it is no longer there.
Save(q) ==
  LET e == request[q].arg.on IN
  /\ Doing(q, "save")
  /\ entry' = [entry EXCEPT ![e].draft = request[q].arg.text, ![e].id = IF There(e) THEN @ ELSE @ + 1]
  /\ Writes(q, {e}) /\ UNCHANGED << publish, script, watched, site >>

\* Removing an entry, or discarding what was not published of it.
UnsaveOpens(q, e, what) ==
  /\ what \in {"remove", "drop"} /\ Somebody("website.edit") /\ There(e)
  /\ what = "drop" => entry[e].draft # entry[e].live
  /\ Opens(q, what, {e}, e, entry[e])
  /\ UNCHANGED websiteVars

\* What was never published goes at once.
Unsave(q) ==
  LET e == request[q].arg  saw == request[q].saw IN
  /\ request[q].doing \in {"remove", "drop"}
  /\ There(e) /\ entry[e].id = saw.id
  /\ entry' = [entry EXCEPT ![e] =
       IF saw.live = 0 THEN NoEntry(@.id) ELSE [@ EXCEPT !.draft = IF Doing(q, "remove") THEN 0 ELSE saw.live]]
  /\ Writes(q, {e}) /\ UNCHANGED << publish, script, watched, site >>

----------------------------------------------------------------------------
(* Publishing: an advisory lock, and never while a publish is building.     *)

\* Mutation of NothingBuilds: the script's own lock is trusted to order them.
AlwaysBuilds == TRUE

NothingBuilds == \A n \in DOMAIN publish : publish[n].status # "building"

\* The row, and the script in the background.
Builds(content) ==
  /\ publish' = Append(publish, [ status |-> "building", content |-> content ])
  /\ script' = Append(script, "waiting")
  /\ watched' = watched \union {Len(publish) + 1}
  /\ UNCHANGED site

GoesLiveOpens(q) ==
  /\ Somebody("website.publish") /\ NothingBuilds /\ \A p \in Requests : ~Doing(p, "go live")
  /\ \E e \in Entries : entry[e].draft # entry[e].live
  /\ Opens(q, "go live", {}, NoRequest, entry)
  /\ UNCHANGED websiteVars

\* Each changed row is deleted or its live copy set to the draft that was read;
\* a post published for the first time has its draft written too, with its date.
GoesLive(q) ==
  LET saw == request[q].saw
      changed == { e \in Entries : saw[e].draft # saw[e].live } IN
  /\ Doing(q, "go live")
  /\ \A e \in changed : There(e) /\ entry[e].id = saw[e].id
  /\ \E dated \in SUBSET changed :
       entry' = [ e \in Entries |->
         IF e \notin changed THEN entry[e]
         ELSE IF saw[e].draft = 0 THEN NoEntry(saw[e].id)
         ELSE [entry[e] EXCEPT !.live = saw[e].draft, !.draft = IF e \in dated THEN saw[e].draft ELSE @] ]
  /\ Builds([ e \in Entries |-> saw[e].draft ])
  /\ Writes(q, changed)

\* Built again from what was published.
Rebuilds ==
  /\ Somebody("website.publish") /\ NothingBuilds /\ \A p \in Requests : ~Doing(p, "go live")
  /\ Acts("rebuild") /\ Builds([ e \in Entries |-> entry[e].live ])
  /\ UNCHANGED << request, entry >>

WebsiteGivesUp(q) ==
  /\ request[q].doing \in {"save", "remove", "drop", "go live"}
  /\ GivesUp(q) /\ UNCHANGED websiteVars

----------------------------------------------------------------------------
(* The script, one at a time, and the process that waits for it.            *)

Turns(n, state) == script' = [script EXCEPT ![n] = state]

\* A process that nobody reads from dies of its next line.
Locks(n) ==
  /\ script[n] = "waiting" /\ n \in watched /\ \A k \in DOMAIN script : script[k] # "running"
  /\ Turns(n, "running") /\ UNCHANGED << entry, publish, watched, site >>

\* The build fails, no lock is given, or it is stopped after fourteen minutes.
Stops(n) ==
  /\ script[n] \in {"waiting", "running"}
  /\ Turns(n, "stopped") /\ UNCHANGED << entry, publish, watched, site >>

\* Once it swaps, the site changes; it may still be stopped.
Swaps(n) ==
  /\ script[n] = "running" /\ site' = publish[n].content
  /\ Turns(n, "swapped") \/ Turns(n, "stopped")
  /\ UNCHANGED << entry, publish, watched >>

\* The outcome is recorded, if the database answers.
Finishes(n) ==
  /\ script[n] \in {"swapped", "stopped"} /\ n \in watched
  /\ Turns(n, "over") /\ watched' = watched \ {n}
  /\ \/ publish' = [publish EXCEPT ![n].status = IF script[n] = "swapped" THEN "live" ELSE "failed"]
     \/ UNCHANGED publish
  /\ UNCHANGED << entry, site >>

\* Fifteen minutes later nobody waits for it any more.
Expires(n) ==
  /\ publish[n].status = "building" /\ n \notin watched
  /\ publish' = [publish EXCEPT ![n].status = "failed"]
  /\ UNCHANGED << entry, script, watched, site >>

Builders ==
  \E n \in DOMAIN publish : Locks(n) \/ Stops(n) \/ Swaps(n) \/ Finishes(n) \/ Expires(n)

WebsiteStep ==
  \/ \E q \in Starting("save"), e \in Entries, text \in Texts : SaveOpens(q, e, text)
  \/ \E what \in {"remove", "drop"} : \E q \in Starting(what), e \in Entries : UnsaveOpens(q, e, what)
  \/ \E q \in Starting("go live") : GoesLiveOpens(q)
  \/ \E q \in Requests : Save(q) \/ Unsave(q) \/ GoesLive(q) \/ WebsiteGivesUp(q)
  \/ Rebuilds
=============================================================================
