------------------------------ MODULE UserBuilds ------------------------------
(***************************************************************************)
(* Saved builds and the workspace that shows them.  A page sends requests   *)
(* it does not wait for; the server answers each with one or more queries,  *)
(* and answers come back in any order.                                      *)
(***************************************************************************)
EXTENDS Naturals, FiniteSets, SequencesExt

CONSTANTS
    Pages,          \* browsers; each is a guest of its own name
    Account,        \* the one account, by its e-mail
    Ids, Calls,
    Parts,          \* products of the graph
    Drafts,         \* parts of builds that may be saved, in the graph or not
    ListLimit,
    NoBuild, Deleted, NoCall, Nobody,
    MaxSends, MaxFaults     \* bounds

Identities == [user : {Account, Nobody}, guest : Pages \cup {Nobody}]
BuildRecords == [user : {Account, Nobody}, guest : Pages \cup {Nobody}, parts : Drafts \cup {{}}, favorite : BOOLEAN]
ViewRecords == [id : Ids, favorite : BOOLEAN]
CallRecords ==
    [page : Pages, kind : {"list", "account", "favorite", "delete", "save", "duplicate"},
     at : {"sent", "read", "created", "answered", "failed"}, id : Ids \cup {NoBuild}, parts : Drafts \cup {{}},
     favorite : BOOLEAN, from : Ids \cup {NoBuild}, list : SUBSET ViewRecords, as : Identities, by : Identities]

ASSUME BuildsAssumption ==
    /\ {ListLimit, MaxSends, MaxFaults} \subseteq Nat
    /\ Account # Nobody /\ Nobody \notin Pages /\ NoBuild \notin Ids
    /\ NoBuild # Deleted /\ NoBuild \notin BuildRecords /\ Deleted \notin BuildRecords
    /\ NoCall \notin CallRecords

VARIABLES
    build,      \* SavedBuild per id
    links,      \* its USES_PRODUCT
    newer,      \* pairs of ids, the first with the later updated_at
    page,       \* what each browser holds and shows
    call,       \* requests under way
    sends, faults

buildVars == <<build, links, newer, page, call, sends, faults>>

BuildsInit ==
    /\ build = [i \in Ids |-> NoBuild] /\ links = [i \in Ids |-> {}] /\ newer = {}
    /\ page = [p \in Pages |-> [user |-> Nobody, saved |-> {}, selected |-> <<>>, loading |-> FALSE,
                                clean |-> FALSE, foreign |-> {}]]
    /\ call = [c \in Calls |-> NoCall]
    /\ sends = 0 /\ faults = 0

Here(i) == i \in Ids /\ build[i] \notin {NoBuild, Deleted}
Flying(p) == {c \in Calls : call[c] # NoCall /\ call[c].page = p}
At(c, step) == call[c] # NoCall /\ call[c].at = step
Is(c, kind, step) == At(c, step) /\ call[c].kind = kind

\* The list is that of the account once there is one, else that of the guest, and holds
\* the latest builds.
Owns(identity, b) == IF identity.user # Nobody THEN b.user = identity.user ELSE b.guest = identity.guest
Owned(identity) == {i \in Ids : Here(i) /\ Owns(identity, build[i])}
View(i) == [id |-> i, favorite |-> build[i].favorite]
Views(ids) == {View(i) : i \in ids}
ListOf(identity) ==
    LET all == Owned(identity)
    IN  Views({i \in all : Cardinality({j \in all : <<j, i>> \in newer}) < ListLimit})
Identity(p) == [user |-> page[p].user, guest |-> p]

-----------------------------------------------------------------------------
\* The page.  History: clean, that no two of its requests overlapped since it refreshed
\* alone and was told of all its builds; foreign, the builds that others changed since.
Request(p, kind) ==
    [page |-> p, kind |-> kind, at |-> "sent", id |-> NoBuild, parts |-> {}, favorite |-> FALSE, from |-> NoBuild,
     list |-> {}, as |-> Identity(p), by |-> Identity(p)]
Sent(c, request) ==
    /\ call[c] = NoCall /\ sends < MaxSends
    /\ sends' = sends + 1
    /\ call' = [call EXCEPT ![c] = request]
    /\ UNCHANGED <<build, links, newer, faults>>
Alone(p) == Flying(p) = {}
Overlaps(p) == page' = [page EXCEPT ![p].clean = @ /\ Alone(p)]

Unused == {i \in Ids : build[i] = NoBuild}
Room == Cardinality({c \in Calls : call[c] # NoCall /\ call[c].kind \in {"save", "duplicate"} /\ ~Here(call[c].id)})
          < Cardinality(Unused)     \* bound

Refresh(p, c) ==
    /\ Sent(c, Request(p, "list"))
    /\ page' = [page EXCEPT ![p].loading = TRUE, ![p].clean = Alone(p)]
CreateAccount(p, c) ==
    /\ page[p].user = Nobody
    /\ Sent(c, Request(p, "account"))
    /\ page' = [page EXCEPT ![p].loading = TRUE, ![p].clean = @ /\ Alone(p)]
ToggleFavorite(p, c) ==
    \E v \in page[p].saved :
        Sent(c, [Request(p, "favorite") EXCEPT !.id = v.id, !.favorite = ~v.favorite]) /\ Overlaps(p)
Duplicate(p, c) ==
    /\ Room
    /\ \E v \in page[p].saved : Sent(c, [Request(p, "duplicate") EXCEPT !.from = v.id]) /\ Overlaps(p)
RemoveBuild(p, c) ==
    \E v \in page[p].saved : Sent(c, [Request(p, "delete") EXCEPT !.id = v.id]) /\ Overlaps(p)
\* The wizard saves under the account, or else under the guest.
Save(p, c) ==
    /\ Room
    /\ \E parts \in Drafts :
         Sent(c, [Request(p, "save") EXCEPT !.parts = parts, !.as.guest = IF page[p].user = Nobody THEN p ELSE Nobody])
    /\ Overlaps(p)
\* The last four that were selected, each once.
Unselected(selected, i) ==
    IF Contains(selected, i) THEN RemoveAt(selected, CHOOSE n \in DOMAIN selected : selected[n] = i) ELSE selected
ToggleSelected(p) ==
    \E v \in page[p].saved :
        LET selected == page[p].selected
            picked == Append(selected, v.id)
        IN  /\ page' = [page EXCEPT ![p].selected =
                          IF Contains(selected, v.id) THEN Unselected(selected, v.id)
                          ELSE SubSeq(picked, IF Len(picked) > 4 THEN Len(picked) - 3 ELSE 1, Len(picked))]
            /\ UNCHANGED <<build, links, newer, call, sends, faults>>

-----------------------------------------------------------------------------
\* The server.
Step(c, step) == call' = [call EXCEPT ![c].at = step]
Touched(p, i) == page' = [q \in Pages |-> IF q = p THEN page[q] ELSE [page[q] EXCEPT !.foreign = @ \cup {i}]]
Unchanged(i) == newer
Without(i) == {pair \in newer : i \notin {pair[1], pair[2]}}
Newest(i) == Without(i) \cup {<<i, j>> : j \in {k \in Ids : Here(k)} \ {i}}

AnswerList(c) ==
    /\ Is(c, "list", "sent")
    /\ call' = [call EXCEPT ![c].at = "answered", ![c].list = ListOf(call[c].as)]
    /\ LET p == call[c].page
       IN  page' = IF page[p].clean
                   THEN [page EXCEPT ![p].foreign = {}, ![p].clean = (ListOf(call[c].as) = Views(Owned(call[c].as)))]
                   ELSE page
    /\ UNCHANGED <<build, links, newer, sends, faults>>

\* MERGE on the e-mail: every browser gets the same account.
AnswerAccount(c) ==
    /\ Is(c, "account", "sent")
    /\ Step(c, "answered")
    /\ UNCHANGED <<build, links, newer, page, sends, faults>>

UpdateBuild(c) ==
    /\ Is(c, "favorite", "sent") /\ Here(call[c].id)
    /\ build' = [build EXCEPT ![call[c].id].favorite = call[c].favorite]
    /\ newer' = Newest(call[c].id)
    /\ Touched(call[c].page, call[c].id)
    /\ Step(c, "answered")
    /\ UNCHANGED <<links, sends, faults>>

DeleteBuild(c) ==
    /\ Is(c, "delete", "sent")
    /\ LET i == call[c].id
       IN  IF Here(i)
           THEN /\ build' = [build EXCEPT ![i] = Deleted]
                /\ links' = [links EXCEPT ![i] = {}]
                /\ newer' = Without(i)
                /\ Touched(call[c].page, i)
           ELSE UNCHANGED <<build, links, newer, page>>
    /\ Step(c, "answered")
    /\ UNCHANGED <<sends, faults>>

\* A copy belongs to who asks for it, and where that is not said to the first owner.
OriginalOwner(c, original) == [user |-> original.user, guest |-> original.guest]
CopyOwner(c, original) == [user  |-> IF call[c].as.user # Nobody THEN call[c].as.user ELSE original.user,
                           guest |-> IF call[c].as.guest # Nobody THEN call[c].as.guest ELSE original.guest]

ReadOriginal(c) ==
    /\ Is(c, "duplicate", "sent") /\ Here(call[c].from)
    /\ LET original == build[call[c].from]
       IN  call' = [call EXCEPT ![c].at = "read", ![c].parts = original.parts, ![c].as = CopyOwner(c, original)]
    /\ UNCHANGED <<build, links, newer, page, sends, faults>>

CreateBuild(c) ==
    /\ Is(c, "save", "sent") \/ Is(c, "duplicate", "read")
    /\ \E i \in Unused :
         /\ build' = [build EXCEPT ![i] = [user |-> call[c].as.user, guest |-> call[c].as.guest,
                                           parts |-> call[c].parts, favorite |-> FALSE]]
         /\ newer' = Newest(i)
         /\ Touched(IF call[c].kind = "duplicate" THEN call[c].page ELSE Nobody, i)
         /\ call' = [call EXCEPT ![c].at = "created", ![c].id = i]
    /\ UNCHANGED <<links, sends, faults>>

\* One query links what the graph has of the parts; a build deleted by then stays away.
LinkNone(parts) == {}
Linked(parts) == parts \cap Parts
LinkBuild(c) ==
    /\ At(c, "created")
    /\ links' = [links EXCEPT ![call[c].id] = IF Here(call[c].id) THEN Linked(call[c].parts) ELSE @]
    /\ Step(c, "answered")
    /\ UNCHANGED <<build, newer, page, sends, faults>>

\* The build is not there, the limiter refuses, a query raises or the answer is lost.
Failed(c) ==
    /\ Step(c, "failed")
    /\ UNCHANGED <<build, links, newer, page, sends>>
Missing(c) ==
    /\ (Is(c, "favorite", "sent") /\ ~Here(call[c].id)) \/ (Is(c, "duplicate", "sent") /\ ~Here(call[c].from))
    /\ Failed(c) /\ UNCHANGED faults
Fault(c) ==
    /\ \E step \in {"sent", "read", "created", "answered"} : At(c, step)
    /\ faults < MaxFaults /\ faults' = faults + 1
    /\ Failed(c)

-----------------------------------------------------------------------------
\* The answer reaches the page.
DroppedHere(views, i) == {v \in views : v.id = i}
Dropped(views, i) == {v \in views : v.id # i}
Marked(views, i, favorite) == {IF v.id = i THEN [v EXCEPT !.favorite = favorite] ELSE v : v \in views}
\* What the page shows of its builds once it has the answer.
SavedAfter(c) ==
    LET saved == page[call[c].page].saved
    IN  CASE call[c].kind = "list"      -> call[c].list
          [] call[c].kind = "favorite"  -> Marked(saved, call[c].id, call[c].favorite)
          [] call[c].kind = "delete"    -> Dropped(saved, call[c].id)
          [] call[c].kind = "duplicate" -> saved \cup {[id |-> call[c].id, favorite |-> FALSE]}
          [] OTHER                      -> saved

AnswerNoted(c) ==
    LET p == call[c].page
    IN  /\ page' = [page EXCEPT
              ![p].saved = SavedAfter(c),
              ![p].loading = IF call[c].kind = "list" THEN FALSE ELSE @,
              ![p].selected = IF call[c].kind = "delete" THEN Unselected(@, call[c].id) ELSE @,
              ![p].user = IF call[c].kind = "account" THEN Account ELSE @,
              ![p].clean = IF call[c].kind = "account" THEN Flying(p) = {c} ELSE @]
          \* a new identity refreshes at once
        /\ call' = [call EXCEPT ![c] = IF call[c].kind = "account"
                                       THEN [Request(p, "list") EXCEPT !.as.user = Account, !.by.user = Account] ELSE NoCall]
Noted(c) == At(c, "answered") /\ AnswerNoted(c) /\ UNCHANGED <<build, links, newer, sends, faults>>

\* Only a refresh and an account tell of an error; either way loading ends.
LoadsOn(kind, loading) == loading
StillLoads(kind, loading) == IF kind \in {"list", "account"} THEN FALSE ELSE loading
ErrorNoted(c) ==
    /\ At(c, "failed")
    /\ page' = [page EXCEPT ![call[c].page].loading = StillLoads(call[c].kind, @), ![call[c].page].clean = FALSE]
    /\ call' = [call EXCEPT ![c] = NoCall]
    /\ UNCHANGED <<build, links, newer, sends, faults>>

BuildsDone == sends = MaxSends /\ (\A c \in Calls : call[c] = NoCall) /\ UNCHANGED buildVars

BuildsNext ==
    \/ \E p \in Pages :
         \/ \E c \in Calls : \/ Refresh(p, c) \/ CreateAccount(p, c) \/ ToggleFavorite(p, c)
                             \/ Duplicate(p, c) \/ RemoveBuild(p, c) \/ Save(p, c)
         \/ ToggleSelected(p)
    \/ \E c \in Calls : \/ AnswerList(c) \/ AnswerAccount(c) \/ UpdateBuild(c) \/ DeleteBuild(c) \/ ReadOriginal(c)
                        \/ CreateBuild(c) \/ LinkBuild(c) \/ Missing(c) \/ Fault(c) \/ Noted(c) \/ ErrorNoted(c)
    \/ BuildsDone
BuildsSpec == BuildsInit /\ [][BuildsNext]_buildVars

-----------------------------------------------------------------------------
BuildsTypeOK ==
    /\ \A i \in Ids : links[i] \subseteq Parts
    /\ \A i, j \in Ids : (<<i, j>> \in newer \/ <<j, i>> \in newer) <=> Here(i) /\ Here(j) /\ i # j
    /\ \A p \in Pages : page[p].user \in {Account, Nobody} /\ Len(page[p].selected) <= 4 /\ page[p].foreign \subseteq Ids
    /\ call \in [Calls -> CallRecords \cup {NoCall}]

\* A page whose requests never overlapped since it was told of all its builds shows what
\* the server has, but for what others changed since.  (Overlapping ones may well show an
\* old list, the guest's list to an account, or a build that was deleted.)
Unaltered(p, views) == {v \in views : v.id \notin page[p].foreign}
QuietPageIsTrue ==
    \A p \in Pages : page[p].clean /\ Alone(p) =>
        Unaltered(p, page[p].saved) = Unaltered(p, Views(Owned(Identity(p))))

\* A user who was told that a build is saved, or copied, finds it linked to its parts.
SavedIsLinked ==
    \A c \in Calls : At(c, "answered") /\ call[c].kind \in {"save", "duplicate"} /\ Here(call[c].id) =>
        links[call[c].id] = build[call[c].id].parts \cap Parts

\* A copy is in the list of who asked for it, whoever owned the original.
CopyIsMine ==
    \A c \in Calls : call[c] # NoCall /\ call[c].kind = "duplicate" /\ call[c].at \in {"created", "answered"} =>
        ~Here(call[c].id) \/ Owns(call[c].by, build[call[c].id])

\* The page never goes on loading after its last answer, an error included.
LoadingEnds == \A p \in Pages : page[p].loading => \E c \in Flying(p) : call[c].kind \in {"list", "account"}

\* What a user is shown and told of saved builds is what there is.
PagesTellTheTruth == BuildsTypeOK /\ QuietPageIsTrue /\ SavedIsLinked /\ CopyIsMine /\ LoadingEnds
=============================================================================
