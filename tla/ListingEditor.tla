--------------------------- MODULE ListingEditor ---------------------------
(***************************************************************************)
(* The form of a listing between two documents: what fromDocument reads from  *)
(* the stored one, what the page lets a publisher change, and what toDocument  *)
(* writes over the stored one, in the order of the publisher's edits.          *)
(*                                                                         *)
(* An object is a function from the members it has. A word is whatever a cell  *)
(* may state: a text, a number, a choice, a list. Nested objects that are       *)
(* closed and known to the form in full (a payout, the bounds of a team or of   *)
(* a cheque) lie flat in the object around them. What a text must look like     *)
(* (a URL, a length, a number) is left out: words are well formed.              *)
(***************************************************************************)
EXTENDS Naturals, FiniteSets, Sequences

Seqs == INSTANCE SequencesExt

CONSTANTS
  Words,             \* what somebody may type or choose
  Slugs,             \* slugs of organizations, which may be typed too
  Fields,            \* the members at the top of a document, "title" among them
  Groups,            \* the repeating groups of it
  Listings,          \* the stored listings that may be edited
  ComesBackAs,       \* words that a cell does not show as they are, and what it shows
  Unstated,          \* an empty cell
  Null,
  ByHand,            \* the local half of an id that was typed
  MaxEdits

Types == {"grant", "hackathon", "bounty", "accelerator", "vc_fund", "rfp"}

(* Of members that every rule here treats alike (a flag, a count, a text, a list) a  *)
(* branch or a row has one or two, which stand for the others.                       *)
DetailMembers ==
  [grant |-> {"programModel", "recurring"},
   hackathon |-> {"location", "tracks", "teamMin"},
   bounty |-> {"bountyKind", "reward", "severityScheme", "skills"},
   accelerator |-> {"location", "batchSize"},
   vc_fund |-> {"checkMin", "thesis"},
   rfp |-> {"scope"}]

(* The lists of a branch, and the branches whose place may be stated to be nowhere. *)
DetailRows == [hackathon |-> "prizes", bounty |-> "rewardTiers"]
ListOf(t) == {DetailRows[u] : u \in DOMAIN DetailRows \cap {t}}
Located == {"hackathon", "accelerator"}

Amounts == {"amount", "min", "max", "percent", "basis", "floor", "cap"}

RowMembers ==
  [operatingOrganizations |-> {"name", "slug", "website"},
   sponsoringOrganizations |-> {"name", "slug", "website"},
   milestones |-> {"title", "amount"},
   socialLinks |-> {"platform", "url"},
   deadlines |-> {"deadlineType", "date", "label"},
   prizes |-> {"track", "amount"},
   rewardTiers |-> {"severity", "label", "model"} \cup Amounts]

(* What is chosen from a list is never empty. *)
Default(group) ==
  CASE group = "socialLinks" -> [platform |-> "twitter"]
    [] group = "deadlines" -> [deadlineType |-> "fixed"]
    [] group = "rewardTiers" -> [model |-> "fixed", basis |-> "value_at_risk"]
    [] group = "bounty" -> [bountyKind |-> "task"]
    [] OTHER -> <<>>

Organizations == {"operatingOrganizations", "sponsoringOrganizations"}
AllGroups == Groups \cup {"operatingOrganizations", "prizes", "rewardTiers"}
TopGroups == AllGroups \ {"prizes", "rewardTiers"}

(* What is offered in a list, and what is written where nothing was stated. *)
Choices ==
  Types \cup {"twitter", "fixed", "rolling", "range", "up_to", "percentage", "discretionary",
             "value_at_risk", "application", "task", "security", "0"}

ASSUME ListingEditorAssumption ==
  /\ MaxEdits \in Nat
  /\ "title" \in Fields /\ "location" \notin Fields /\ Groups \subseteq DOMAIN RowMembers
  /\ Unstated \notin Words \cup Slugs \cup Choices \cup {Null}
  /\ Null \notin Words \cup Slugs \cup Choices
  /\ DOMAIN ComesBackAs \cap (Words \cup Slugs \cup Choices \cup {Unstated, Null}) = {}
  /\ \A w \in DOMAIN ComesBackAs : ComesBackAs[w] \in Words

VARIABLES
  mode,              \* "create" or "edit"
  editor,            \* the state of the form
  carried,           \* the record it was read from
  stored,            \* the record the API has
  sent,              \* the outcome of a submission is shown in place of the form
  edits,             \* how many edits were made
  touched            \* history: which members of which object were edited since the form was read

editorVars == <<mode, editor, carried, stored, sent, edits, touched>>

-----------------------------------------------------------------------------
(* From a document to the form *)

(* Cells, but for those that a second object states. *)
Stating(cells, defaults) ==
  [m \in DOMAIN cells \cup DOMAIN defaults |-> IF m \in DOMAIN defaults THEN defaults[m] ELSE cells[m]]
AllUnstated(members) == [m \in members |-> Unstated]

EmptyRow(group) ==
  [cells |-> Stating(AllUnstated(RowMembers[group]),
               IF group = "deadlines" THEN Stating(Default(group), [label |-> "application"])
               ELSE Default(group)),
   base |-> <<>>]

EmptyDetails(t) == Stating(AllUnstated(DetailMembers[t]), Default(t))

(* A list is joined by commas, and an instant is shown as a local time. *)
Shows(word) == IF word \in DOMAIN ComesBackAs THEN ComesBackAs[word] ELSE word

Reads(object, members, defaults) ==
  [m \in members |->
     IF m \in DOMAIN object /\ object[m] # Null THEN Shows(object[m])
     ELSE IF m \in DOMAIN defaults THEN defaults[m] ELSE Unstated]

ReadRows(objects, group) ==
  [i \in DOMAIN objects |->
     [cells |-> Reads(objects[i], RowMembers[group], Default(group)), base |-> objects[i]]]

(* An object has no member that it does not state. *)
Listed(object, member) == IF member \in DOMAIN object THEN object[member] ELSE <<>>

(* A mistake: the place of a remote programme is read as a text that nobody wrote. *)
ClaimForgotten(details) == [t \in Located |-> FALSE]

ClaimsNoPlace(details) ==
  [t \in Located |-> /\ details.fundingType = t
                     /\ "location" \in DOMAIN details /\ details.location = Null]

ReadDetails(details) ==
  [t \in Types |->
     IF t = details.fundingType THEN Reads(details, DetailMembers[t], Default(t)) ELSE EmptyDetails(t)]

FromDocument(d) ==
  LET operating == ReadRows(d.rows.operatingOrganizations, "operatingOrganizations")
      tiers == Listed(d.details, "rewardTiers")
  IN [id |-> d.id, dirty |-> TRUE, type |-> d.type,
      fields |-> Reads(d.fields, Fields, <<>>),
      rows |-> [g \in AllGroups |->
         CASE g = "operatingOrganizations" ->
                IF operating = <<>> THEN <<EmptyRow(g)>> ELSE operating
           [] g \in {"prizes", "rewardTiers"} -> ReadRows(Listed(d.details, g), g)
           [] OTHER -> ReadRows(d.rows[g], g)],
      details |-> ReadDetails(d.details),
      remote |-> ClaimsNoPlace(d.details),
      pays |-> IF tiers # <<>> \/ Listed(d.details, "bountyKind") = "security"
               THEN "tiers" ELSE "single"]

EmptyForm ==
  [id |-> Unstated, dirty |-> FALSE, type |-> "grant",
   fields |-> AllUnstated(Fields),
   rows |-> [g \in AllGroups |->
      IF g = "operatingOrganizations" THEN <<EmptyRow(g)>> ELSE <<>>],
   details |-> [t \in Types |-> EmptyDetails(t)],
   remote |-> [t \in Located |-> FALSE],
   pays |-> "single"]

NoRecord ==
  [id |-> Unstated, publisher |-> Unstated, legacy |-> FALSE, type |-> "grant", fields |-> <<>>,
   rows |-> [g \in TopGroups |-> <<>>], details |-> [fundingType |-> Unstated]]

-----------------------------------------------------------------------------
(* From the form to a document *)

(* What is stated is written over the object, what is not is removed from it. *)
WrittenOver(base, cells) ==
  LET members == (DOMAIN base \ DOMAIN cells) \cup {m \in DOMAIN cells : cells[m] # Unstated}
  IN [m \in members |-> IF m \in DOMAIN cells THEN cells[m] ELSE base[m]]

Allowed ==
  [fixed |-> {"amount"}, range |-> {"min", "max"}, up_to |-> {"max"},
   percentage |-> {"percent", "basis", "floor", "cap"}, discretionary |-> {}]

(* A mistake: the amounts of another payout model are written as long as they are there. *)
StatedAsTyped(group, cells) == cells

(* What the cells of a row state: a rolling deadline has no date, a payout only the   *)
(* amounts of its model, a prize an amount in any case.                               *)
Stated(group, cells) ==
  CASE group = "deadlines" /\ cells.deadlineType = "rolling" -> [cells EXCEPT !["date"] = Unstated]
    [] group = "rewardTiers" ->
         [m \in DOMAIN cells |-> IF m \in Amounts \ Allowed[cells.model] THEN Unstated ELSE cells[m]]
    [] group = "prizes" /\ cells.amount = Unstated -> [cells EXCEPT !["amount"] = "0"]
    [] OTHER -> cells

(* A mistake: a row is written over the object that stands where the row now does. *)
BuildByPlace(f, group) ==
  [i \in DOMAIN f.rows[group] |->
     LET there == IF group \in TopGroups THEN carried.rows[group] ELSE Listed(carried.details, group)
     IN WrittenOver(IF i \in DOMAIN there THEN there[i] ELSE <<>>, Stated(group, f.rows[group][i].cells))]

(* Each row is written over the object it was read from. *)
Build(f, group) ==
  [i \in DOMAIN f.rows[group] |->
     WrittenOver(f.rows[group][i].base, Stated(group, f.rows[group][i].cells))]

PaysByTable(f) == f.details.bounty.bountyKind = "security" \/ f.pays = "tiers"

(* A mistake: whatever the bounty pays by, its reward is written. *)
StatedWithReward(f) ==
  LET cells == f.details[f.type]
  IN IF f.type \in Located /\ f.remote[f.type] THEN [cells EXCEPT !["location"] = Null] ELSE cells

StatedDetails(f) ==
  LET cells == f.details[f.type]
  IN CASE f.type \in Located /\ f.remote[f.type] -> [cells EXCEPT !["location"] = Null]
       [] f.type = "bounty" /\ PaysByTable(f) -> [cells EXCEPT !["reward"] = Unstated]
       [] OTHER -> cells

(* The list of a branch is written if it has rows, and if the bounty pays by it. *)
StatedRows(f) ==
  [g \in {h \in ListOf(f.type) : f.rows[h] # <<>> /\ (f.type = "bounty" => PaysByTable(f))} |->
     Build(f, g)]

(* A mistake: the stored object is the base whatever type it is of. *)
BaseOfAnyType(f, details) == details

(* The stored object is the base while the type is its own. *)
DetailsBase(f, details) == IF details.fundingType = f.type THEN details ELSE <<>>

BuildDetails(f, details) ==
  LET base == DetailsBase(f, details)
      rest == [m \in DOMAIN base \ ListOf(f.type) |-> base[m]]
  IN Stating(WrittenOver(rest, Stating(StatedDetails(f), [fundingType |-> f.type])), StatedRows(f))

ToDocument(f, base) ==
  [base EXCEPT !.id = f.id, !.type = f.type,
               !.fields = WrittenOver(@, f.fields),
               !.rows = [g \in TopGroups |-> Build(f, g)],
               !.details = BuildDetails(f, @)]

Built == ToDocument(editor, carried)

-----------------------------------------------------------------------------
(* What the form says is wrong, and what the Standard and the API do *)

SlugsOf(rows) == {rows[i].slug : i \in {j \in DOMAIN rows : "slug" \in DOMAIN rows[j]}}
SlugsTyped(f) == {f.rows.operatingOrganizations[i].cells.slug : i \in DOMAIN f.rows.operatingOrganizations}

(* namespaceAuthority: a replacement keeps the publisher among the operators, unless   *)
(* the record was imported and never had it there.                                   *)
MustKeepPublisher(record) ==
  /\ record.publisher # Unstated
  /\ ~(record.legacy /\ record.publisher \notin SlugsOf(record.rows.operatingOrganizations))

NamespaceProblem(f) ==
  IF mode = "create"
  THEN LET primary == IF f.rows.operatingOrganizations = <<>> THEN Unstated
                      ELSE f.rows.operatingOrganizations[1].cells.slug
       IN f.id = Unstated \/ (primary # Unstated /\ f.id[1] # primary)
  ELSE MustKeepPublisher(carried) /\ carried.publisher \notin SlugsTyped(f)

Distinct(rows) == \A i, j \in DOMAIN rows : i # j => rows[i].cells # rows[j].cells

RowProblem(group, cells) ==
  CASE group \in Organizations -> cells.name = Unstated \/ cells.slug = Unstated
    [] group = "socialLinks" -> cells.url = Unstated
    [] group = "deadlines" -> cells.deadlineType = "fixed" /\ cells.date = Unstated
    [] group = "prizes" -> cells.amount = Unstated
    [] group = "rewardTiers" ->
         \/ cells.severity = Unstated /\ cells.label = Unstated
         \/ \E m \in Allowed[cells.model] \ {"floor", "cap"} : cells[m] = Unstated
    [] OTHER -> FALSE

RowProblems(f, group) == \E i \in DOMAIN f.rows[group] : RowProblem(group, f.rows[group][i].cells)

DetailProblem(f) ==
  CASE f.type = "hackathon" -> RowProblems(f, "prizes")
    [] f.type = "bounty" ->
         \/ IF PaysByTable(f) THEN f.rows.rewardTiers = <<>> ELSE f.details.bounty.reward = Unstated
         \/ RowProblems(f, "rewardTiers")
    [] OTHER -> FALSE

(* fieldProblems finds something. *)
HasProblem(f) ==
  \/ NamespaceProblem(f)
  \/ f.fields["title"] = Unstated
  \/ f.rows.operatingOrganizations = <<>>
  \/ \E g \in TopGroups : RowProblems(f, g)
  \/ \E g \in {"socialLinks", "deadlines"} \cap Groups : ~Distinct(f.rows[g])
  \/ DetailProblem(f)

(* The schema, of one row and of a whole document. *)
RowConforms(group, row) ==
  CASE group \in Organizations -> {"name", "slug"} \subseteq DOMAIN row
    [] group = "socialLinks" -> {"platform", "url"} \subseteq DOMAIN row
    [] group = "deadlines" -> row.deadlineType = "fixed" => "date" \in DOMAIN row
    [] group = "prizes" -> "amount" \in DOMAIN row
    [] group = "rewardTiers" ->
         /\ DOMAIN row \cap {"severity", "label"} # {}
         /\ DOMAIN row \cap Amounts \subseteq Allowed[row.model]
         /\ Allowed[row.model] \ {"floor", "cap"} \subseteq DOMAIN row
    [] OTHER -> TRUE

DetailsConform(t, details) ==
  /\ details.fundingType = t
  /\ DOMAIN details \subseteq {"fundingType"} \cup DetailMembers[t] \cup ListOf(t)
  /\ t = "bounty" =>
       /\ {"reward", "rewardTiers"} \cap DOMAIN details
            \in {{"rewardTiers"}} \cup IF details.bountyKind = "task" THEN {{"reward"}} ELSE {}
       /\ "rewardTiers" \in DOMAIN details => details.rewardTiers # <<>>
  /\ \A g \in {"prizes", "rewardTiers"} :
       \A i \in DOMAIN Listed(details, g) : RowConforms(g, details[g][i])

Conforms(d) ==
  /\ "title" \in DOMAIN d.fields
  /\ d.rows.operatingOrganizations # <<>>
  /\ \A g \in TopGroups : \A i \in DOMAIN d.rows[g] : RowConforms(g, d.rows[g][i])
  /\ \A g \in {"socialLinks", "deadlines"} \cap Groups :
       \A i, j \in DOMAIN d.rows[g] : i # j => d.rows[g][i] # d.rows[g][j]
  /\ DetailsConform(d.type, d.details)

(* What a stored listing is, besides: its lists are lists, what is chosen from a list of *)
(* the schema is one of it, and what the schema requires is no null. Organizations that    *)
(* have what the form does not know differ in it, by which the properties name them.     *)
IsList(s) == s \in Seq({s[i] : i \in DOMAIN s})

IsRow(group, row) ==
  /\ group = "deadlines" => "deadlineType" \in DOMAIN row /\ row.deadlineType \in {"fixed", "rolling"}
  /\ group = "socialLinks" => "platform" \in DOMAIN row /\ row.platform # Unstated
  /\ group = "prizes" => "amount" \in DOMAIN row /\ row.amount \notin {Unstated, Null}
  /\ group = "rewardTiers" =>
       /\ "model" \in DOMAIN row /\ row.model \in DOMAIN Allowed
       /\ "basis" \in DOMAIN row => row.basis # Null

AreRows(group, rows) == IsList(rows) /\ \A i \in DOMAIN rows : IsRow(group, rows[i])

Named(objects) == {i \in DOMAIN objects : "contacts" \in DOMAIN objects[i]}
Apart(objects) == \A i, j \in Named(objects) : i # j => objects[i].contacts # objects[j].contacts

IsListing(d) ==
  /\ d \in [id : {d.id}, publisher : {d.publisher}, legacy : BOOLEAN, type : Types,
            fields : {d.fields}, rows : {d.rows}, details : {d.details}]
  /\ d.rows \in [TopGroups -> {d.rows[g] : g \in TopGroups}]
  /\ \A g \in TopGroups : AreRows(g, d.rows[g])
  /\ Apart(d.rows["operatingOrganizations"])
  /\ \A g \in ListOf(d.type) \cap DOMAIN d.details : AreRows(g, d.details[g])
  /\ "fundingType" \in DOMAIN d.details
  /\ d.type = "bounty" =>
       "bountyKind" \in DOMAIN d.details /\ d.details.bountyKind \in {"task", "security"}

ASSUME ListingsAssumption == \A d \in Listings : IsListing(d) /\ Conforms(d)

(* authorizationNamespace of a create, and the publisher that a replacement must keep. *)
ApiTakes(d) ==
  IF mode = "create" THEN d.id # Unstated /\ d.id[1] = d.rows.operatingOrganizations[1].slug
  ELSE MustKeepPublisher(stored) => stored.publisher \in SlugsOf(d.rows.operatingOrganizations)

-----------------------------------------------------------------------------
(* The page *)

EditorInit ==
  /\ \/ mode = "create" /\ stored = NoRecord /\ editor = EmptyForm
     \/ mode = "edit" /\ stored \in Listings /\ editor = FromDocument(stored)
  /\ carried = stored
  /\ sent = FALSE /\ edits = 0 /\ touched = {}

(* One edit of the form, which touches members of an object. *)
Edit(f, what) ==
  /\ ~sent /\ edits < MaxEdits
  /\ editor' = f
  /\ edits' = edits + 1
  /\ touched' = touched \cup what
  /\ UNCHANGED <<mode, carried, stored, sent>>

(* A mistake: the id follows what is typed into the first row, not which row is first. *)
WithOperatingAsTyped(f, rows) ==
  [f EXCEPT !.rows["operatingOrganizations"] = rows,
            !.id = IF mode = "create" /\ ~f.dirty /\ Len(rows) = Len(f.rows.operatingOrganizations)
                     THEN IF rows[1].cells.slug = Unstated \/ f.fields["title"] = Unstated THEN Unstated
                          ELSE <<rows[1].cells.slug, f.fields["title"]>>
                   ELSE @]

DeriveId(rows, title) ==
  IF rows = <<>> \/ title = Unstated THEN Unstated
  ELSE IF rows[1].cells.slug = Unstated THEN Unstated ELSE <<rows[1].cells.slug, title>>

(* Until somebody types an id it follows the title and the primary organization. *)
Following(f) ==
  IF mode = "create" /\ ~f.dirty
  THEN [f EXCEPT !.id = DeriveId(f.rows.operatingOrganizations, f.fields["title"])]
  ELSE f

WithOperating(f, rows) == Following([f EXCEPT !.rows["operatingOrganizations"] = rows])

WithRows(f, group, rows) ==
  IF group = "operatingOrganizations" THEN WithOperating(f, rows) ELSE [f EXCEPT !.rows[group] = rows]

(* The groups the page shows. *)
OnPage(group) ==
  CASE group = "prizes" -> editor.type = "hackathon"
    [] group = "rewardTiers" -> editor.type = "bounty" /\ PaysByTable(editor)
    [] OTHER -> TRUE

(* The objects of a group that the form does not know in full are told apart by the   *)
(* member it does not know; of a list of the details, the list is what is edited.      *)
Whose(group, row, members) ==
  IF group \notin TopGroups THEN {<<"details", group>>}
  ELSE IF "contacts" \in DOMAIN row.base THEN {row.base.contacts} \X members ELSE {}

AddRow(group) ==
  /\ OnPage(group)
  /\ Edit(WithRows(editor, group, Append(editor.rows[group], EmptyRow(group))),
          Whose(group, EmptyRow(group), {}))

RemoveRow(group, i) ==
  /\ OnPage(group)
  /\ LET row == editor.rows[group][i]
     IN Edit(WithRows(editor, group, Seqs!RemoveAt(editor.rows[group], i)),
             Whose(group, row, RowMembers[group]))

(* Up and down, where the order has a meaning: replacement of two neighbours. *)
MoveRow(group, i) ==
  /\ group \in {"operatingOrganizations", "milestones"} \cap AllGroups
  /\ i + 1 \in DOMAIN editor.rows[group]
  /\ LET rows == editor.rows[group]
     IN Edit(WithRows(editor, group, [rows EXCEPT ![i] = rows[i + 1], ![i + 1] = rows[i]]), {})

(* Another payout model empties the amounts that are not its own (the basis stays), and *)
(* a deadline that becomes rolling loses its date.                                      *)
Switched(group, cells, member, word) ==
  [m \in DOMAIN cells |->
     IF m = member THEN word
     ELSE IF \/ member = "model" /\ m \in Amounts \ (Allowed[word] \cup {"basis"})
             \/ member = "deadlineType" /\ word = "rolling" /\ m = "date"
     THEN Unstated ELSE cells[m]]

(* What may be chosen or typed in a cell: a basis, a model or a platform is never blank. *)
MayHold(member) ==
  CASE member = "deadlineType" -> {"fixed", "rolling"}
    [] member = "model" -> DOMAIN Allowed
    [] member = "slug" -> Slugs \cup {Unstated}
    [] member \in {"basis", "platform"} -> Words
    [] OTHER -> Words \cup {Unstated}

CellOnPage(group, cells, member) ==
  CASE group = "rewardTiers" /\ member \in Amounts -> member \in Allowed[cells.model]
    [] group = "deadlines" /\ member = "date" -> cells.deadlineType = "fixed"
    [] OTHER -> TRUE

EditRow(group, i, member, word) ==
  LET row == editor.rows[group][i]
  IN /\ OnPage(group) /\ CellOnPage(group, row.cells, member)
     /\ word # row.cells[member]
     /\ Edit(WithRows(editor, group,
               [editor.rows[group] EXCEPT ![i].cells = Switched(group, row.cells, member, word)]),
             Whose(group, row, {member}))

(* retitle, and the other texts. *)
EditField(member, word) ==
  /\ word # editor.fields[member]
  /\ LET f == [editor EXCEPT !.fields[member] = word]
     IN Edit(IF member = "title" THEN Following(f) ELSE f, {<<"fields", member>>})

TypeId(id) ==
  /\ mode = "create" /\ id # editor.id
  /\ Edit([editor EXCEPT !.id = id, !.dirty = TRUE], {})

ChooseType(t) ==
  /\ t # editor.type
  /\ Edit([editor EXCEPT !.type = t], {})

ChooseKind(kind) ==
  /\ editor.type = "bounty" /\ kind # editor.details.bounty.bountyKind
  /\ Edit([editor EXCEPT !.details["bounty"]["bountyKind"] = kind,
                         !.pays = IF kind = "security" THEN "tiers" ELSE @],
          {"details"} \X {"bountyKind", "reward", "rewardTiers"})

ChoosePays(pays) ==
  /\ editor.type = "bounty" /\ editor.details.bounty.bountyKind = "task" /\ pays # editor.pays
  /\ Edit([editor EXCEPT !.pays = pays], {"details"} \X {"reward", "rewardTiers"})

ClaimNoPlace(remote) ==
  /\ editor.type \in Located /\ remote # editor.remote[editor.type]
  /\ Edit([editor EXCEPT !.remote[editor.type] = remote], {<<"details", "location">>})

(* The cells of a branch that the page shows. *)
DetailOnPage(member) ==
  CASE member = "bountyKind" -> FALSE
    [] member = "reward" -> ~PaysByTable(editor)
    [] member = "skills" -> editor.details.bounty.bountyKind = "task"
    [] member = "severityScheme" -> editor.details.bounty.bountyKind = "security"
    [] member = "location" -> ~editor.remote[editor.type]
    [] OTHER -> TRUE

EditDetail(member, word) ==
  /\ DetailOnPage(member) /\ word # editor.details[editor.type][member]
  /\ Edit([editor EXCEPT !.details[editor.type][member] = word], {<<"details", member>>})

(* send, and an API that takes the document: neither the form nor the Standard's       *)
(* validator, which runs in the page, has anything to say.                             *)
SendListing ==
  /\ ~sent /\ ~HasProblem(editor) /\ Conforms(Built) /\ ApiTakes(Built)
  /\ stored' = IF mode = "create"
               THEN [Built EXCEPT !.publisher = Built.rows.operatingOrganizations[1].slug]
               ELSE Built
  /\ sent' = TRUE
  /\ UNCHANGED <<mode, editor, carried, edits, touched>>

(* onAgain: a create starts anew, an edit goes on with what it had carried. *)
EditOn ==
  /\ sent
  /\ sent' = FALSE
  /\ editor' = IF mode = "create" THEN EmptyForm ELSE editor
  /\ UNCHANGED <<mode, carried, stored, edits, touched>>

(* The page for editing the record, opened or loaded anew. *)
OpenListing ==
  /\ stored # NoRecord
  /\ mode' = "edit"
  /\ editor' = FromDocument(stored)
  /\ carried' = stored
  /\ sent' = FALSE /\ touched' = {}
  /\ UNCHANGED <<stored, edits>>

EditorNext ==
  \/ \E g \in AllGroups :
       \/ AddRow(g)
       \/ \E i \in DOMAIN editor.rows[g] :
            \/ RemoveRow(g, i) \/ MoveRow(g, i)
            \/ \E m \in RowMembers[g] : \E w \in MayHold(m) : EditRow(g, i, m, w)
  \/ \E m \in Fields, w \in Words \cup {Unstated} : EditField(m, w)
  \/ \E s \in Slugs : TypeId(<<s, ByHand>>)
  \/ \E t \in Types : ChooseType(t)
  \/ \E kind \in {"task", "security"} : ChooseKind(kind)
  \/ \E pays \in {"single", "tiers"} : ChoosePays(pays)
  \/ \E remote \in BOOLEAN : ClaimNoPlace(remote)
  \/ \E m \in DetailMembers[editor.type] : \E w \in Words \cup {Unstated} : EditDetail(m, w)
  \/ SendListing \/ EditOn \/ OpenListing

EditorSpec == EditorInit /\ [][EditorNext]_editorVars

-----------------------------------------------------------------------------
(* Properties *)

EditorTypeOK ==
  /\ mode \in {"create", "edit"} /\ sent \in BOOLEAN /\ edits \in 0..MaxEdits
  /\ editor.type \in Types /\ editor.pays \in {"single", "tiers"}
  /\ \A g \in AllGroups : \A i \in DOMAIN editor.rows[g] :
       DOMAIN editor.rows[g][i].cells = RowMembers[g]
  /\ \A t \in Types : DOMAIN editor.details[t] = DetailMembers[t]

(* What an object states about a member: a null states nothing, but for a location. *)
Claim(object, member) ==
  IF member \notin DOMAIN object THEN Unstated
  ELSE IF object[member] = Null /\ member # "location" THEN Unstated
  ELSE object[member]

(* A member that the form knows says what it said, any other is as it was. *)
KeptAs(old, new, member, known) ==
  IF member \notin known THEN member \in DOMAIN new /\ new[member] = old[member]
  ELSE LET was == Claim(old, member)
       IN Claim(new, member) = IF was = Null \/ was = Unstated THEN was ELSE Shows(was)

(* The stored organizations that are still in the list are there once each, and what   *)
(* the form does not show of one stands beside what it does.                          *)
OrganizationsKept(was, now) ==
  LET known == RowMembers["operatingOrganizations"]
  IN \A i \in Named(was) :
       LET places == {j \in Named(now) : now[j].contacts = was[i].contacts}
           kept == {m \in known \cup DOMAIN was[i] : <<was[i].contacts, m>> \notin touched}
       IN IF known \cap kept = {} THEN \A j, k \in places : j = k
          ELSE \E j \in places : places = {j} /\ \A m \in kept : KeptAs(was[i], now[j], m, known)

(* A list that nobody edited has the rows it had. *)
ListKept(was, now, group) ==
  /\ DOMAIN now = DOMAIN was
  /\ \A i \in DOMAIN was : \A m \in RowMembers[group] \cup DOMAIN was[i] :
       KeptAs(was[i], now[i], m, RowMembers[group])

(* A replacement changes what the publisher changed and nothing else. Every member of   *)
(* the stored record that no edit touched is in the document as it was, with the row     *)
(* and the branch it belonged to, however rows were moved, added and removed and          *)
(* however often the type was switched and switched back.                             *)
RestIsKept ==
  mode = "edit" =>
    /\ \A m \in Fields \cup DOMAIN carried.fields : <<"fields", m>> \notin touched =>
         KeptAs(carried.fields, Built.fields, m, Fields)
    /\ OrganizationsKept(carried.rows["operatingOrganizations"], Built.rows["operatingOrganizations"])
    /\ editor.type = carried.type =>
         /\ \A m \in {"fundingType"} \cup DetailMembers[editor.type] : <<"details", m>> \notin touched =>
              KeptAs(carried.details, Built.details, m, DetailMembers[editor.type])
         /\ \A g \in ListOf(editor.type) : <<"details", g>> \notin touched =>
              ListKept(Listed(carried.details, g), Listed(Built.details, g), g)

(* The Standard permits a date on a rolling deadline, which the form does not show and   *)
(* does not write: two that differ in nothing else are no duplicates before it is gone.   *)
HidesDate(f) ==
  /\ "deadlines" \in Groups
  /\ \E i \in DOMAIN f.rows["deadlines"] :
       LET cells == f.rows["deadlines"][i].cells
       IN cells.deadlineType = "rolling" /\ cells.date # Unstated

(* What the form lets through, the Standard and the API take: where it finds nothing to  *)
(* say the document has every member its branch, payout models and deadlines need and    *)
(* none that they forbid, and its publisher is one of its operators. (A form that goes   *)
(* on after its own replacement still asks what was true of the record it was read from.) *)
LetThroughIsTaken ==
  /\ EditorTypeOK
  /\ ~HasProblem(editor) =>
       /\ HidesDate(editor) \/ Conforms(Built)
       /\ stored = carried => ApiTakes(Built)

(* What is on the page is what was saved. The record opened again shows the form as it   *)
(* was sent, and saving it once more changes nothing.                                *)
Statements(f) ==
  [type |-> f.type, fields |-> f.fields,
   rows |-> [g \in TopGroups |-> [i \in DOMAIN f.rows[g] |-> Stated(g, f.rows[g][i].cells)]],
   details |-> StatedDetails(f), lists |-> StatedRows(f)]

SavedIsShown ==
  sent =>
    LET again == FromDocument(stored)
    IN /\ Statements(again) = Statements(editor)
       /\ ToDocument(again, stored) = stored

(* "A proposal rather than a rule": while nobody typed an id it names the primary        *)
(* organization and the title of the moment, and a form that is let through creates the  *)
(* listing under the organization it shows as the first.                              *)
IdFollows ==
  mode = "create" /\ ~editor.dirty =>
    editor.id = DeriveId(editor.rows.operatingOrganizations, editor.fields["title"])

(* An edit is exact: what was edited is what is saved, the rest stays as it was, and   *)
(* the id that nobody typed goes with the edits it is made of.                         *)
EditsAreExact == RestIsKept /\ SavedIsShown /\ IdFollows
=============================================================================
