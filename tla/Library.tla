------------------------------ MODULE Library ------------------------------
(***************************************************************************)
(* Saved items, approved history and remembered links of one workspace,    *)
(* after routes.js, inventory-history.js and media.js.                     *)
(*                                                                         *)
(* A row of an inventory carries a line of the hand receipt.  Approved     *)
(* proof is found again in later inventories, by the saved item, by the    *)
(* identifiers in the wording, or by a link a leader made.  What a page    *)
(* shows is computed by one set of queries, what a photo URL serves by     *)
(* another; the two have to agree.                                         *)
(***************************************************************************)
EXTENDS Integers, FiniteSets, Sequences, SequencesExt, FiniteSetsExt

CONSTANTS
  Rows,        \* rows of inventory_session_items
  Inventories, \* inventory_sessions of the workspace
  SessionOf,   \* the inventory each row belongs to
  Lots,        \* rows whose expected quantity is not one
  Lines,       \* packet wordings, normalised
  LinesOf,     \* bound: the wordings each row may be given
  Named,       \* bound: the rows that are added for a named saved item
  ReportsOf,   \* bound: outcomes of the proof of each row, with a photo or not
  Closable,    \* bound: the inventories that are closed and opened again
  Blank,       \* the empty wording
  LineLins,    \* LINs at the head of a wording, in order
  LineNsns,    \* NSNs in a wording, in order
  Wording,     \* points a wording and the title of an item earn by words alone
  Catalogue,   \* items leaders enter by hand
  None,
  MaxProofs, MaxItems,   \* bounds on proof and items
  MaxOpen,               \* bound on the reviews waiting at once
  MaxSaved               \* photos an item keeps (three in the code)

\* All identifiers: of wordings and of items entered by hand.
Lins == (UNION {ToSet(LineLins[l]) : l \in Lines}) \cup UNION {c.lin : c \in Catalogue}
Nsns == (UNION {ToSet(LineNsns[l]) : l \in Lines}) \cup UNION {c.nsn : c \in Catalogue}

ASSUME LibraryAssumption ==
  /\ SessionOf \in [Rows -> Inventories] /\ None \notin Rows
  /\ Blank \in Lines /\ LinesOf \in [Rows -> SUBSET Lines]
  /\ ReportsOf \in [Rows -> SUBSET [found: BOOLEAN, photo: BOOLEAN]]
  /\ LineLins \in [Lines -> Seq(Lins)] /\ LineNsns \in [Lines -> Seq(Nsns)]
  /\ IsFiniteSet(Lins) /\ IsFiniteSet(Nsns)
  /\ \A c \in Catalogue : c.title \in Lines
  /\ MaxProofs \in Nat /\ MaxItems \in Nat /\ MaxSaved \in Nat

VARIABLES
  inventory,   \* status of every inventory
  row,         \* rows: wording, quantity, saved item, suggestion, status
  proof,       \* item_submissions in the order they were made
  item,        \* saved items with their reference photos
  link         \* equipment_library_links: the target row of each wording

libraryVars == <<inventory, row, proof, item, link>>

-----------------------------------------------------------------------------
(***************************************************************************)
(* Identifiers and the matching of rows.                                   *)
(***************************************************************************)

Added == {r \in Rows : row[r].status # "absent"}
Proofs == 1..Len(proof)
SavedItems == 1..Len(item)
Approved == {p \in Proofs : proof[p].state = "approved"}
ProofRow(p) == proof[p].row
\* Proof p has at most one photo here, and p names it.
PhotoOf(p) == IF proof[p].photo THEN {p} ELSE {}

ItemLin(i) == IF i = 0 THEN {} ELSE item[i].lin
ItemNsn(i) == IF i = 0 THEN {} ELSE item[i].nsn

\* inventoryHistoryMatchProfile: identifiers of the wording and of the item.
Profile(r) ==
  [item |-> row[r].item,
   line |-> row[r].line,
   lins |-> ToSet(LineLins[row[r].line]) \cup ItemLin(row[r].item),
   nsns |-> ToSet(LineNsns[row[r].line]) \cup ItemNsn(row[r].item)]

Overlap(S, T) == S \cap T # {}

\* inventoryHistoryMatchBasis: the saved item decides, then an NSN, then a
\* LIN unless both rows carry NSNs, then equal wording without a conflict.
RowsMatch(q, r) ==
  LET a == Profile(q)  b == Profile(r)
      bothNsns == a.nsns # {} /\ b.nsns # {}
      bothLins == a.lins # {} /\ b.lins # {}
  IN \/ a.item # 0 /\ a.item = b.item
     \/ Overlap(a.nsns, b.nsns)
     \/ Overlap(a.lins, b.lins) /\ ~bothNsns
     \/ /\ a.line # Blank /\ a.line = b.line
        /\ bothLins => Overlap(a.lins, b.lins)
        /\ ~bothNsns

\* findPriorInventoryHistoryMatches: the observations a row is matched with.
Matched(r, obs) == {p \in obs : RowsMatch(r, ProofRow(p))}

\* The points of a wording for a saved item, and whether an identifier counts.
ItemLins(i) == item[i].lin \cup ToSet(LineLins[item[i].title])
ItemNsns(i) == item[i].nsn \cup ToSet(LineNsns[item[i].title])
Identified(l, i) ==
  Overlap(ToSet(LineNsns[l]), ItemNsns(i)) \/ Overlap(ToSet(LineLins[l]), ItemLins(i))
Score(l, i) ==
  1000 * Cardinality(ToSet(LineNsns[l]) \cap ItemNsns(i))
    + 900 * Cardinality(ToSet(LineLins[l]) \cap ItemLins(i))
    + Wording[l][item[i].title]

\* findInventoryItemMatch: enough points, and well ahead of the runner-up.
Matches(l) ==
  {i \in SavedItems :
     /\ Score(l, i) >= 180
     /\ Identified(l, i) \/ Score(l, i) >= 260
     /\ \A j \in SavedItems \ {i} : Score(l, j) = 0 \/ Score(l, i) - Score(l, j) >= 80}

\* findUniqueInventoryIdentifierMatch
ByIdentifier(l) ==
  {i \in SavedItems : Overlap(ToSet(LineLins[l]), item[i].lin)
                        \/ Overlap(ToSet(LineNsns[l]), ItemNsns(i))}
UniqueMatch(l) == IF Cardinality(ByIdentifier(l)) = 1 THEN ByIdentifier(l) ELSE {}

-----------------------------------------------------------------------------
(***************************************************************************)
(* The equipment library: groups of approved observations.                 *)
(***************************************************************************)

\* The NSNs that observations obs with one LIN and one NSN give a LIN.
NsnsOfLin(lin, obs) ==
  UNION {Profile(ProofRow(p)).nsns :
           p \in {q \in obs : /\ Profile(ProofRow(q)).lins = {lin}
                              /\ Cardinality(Profile(ProofRow(q)).nsns) = 1}}

\* equipmentLibraryCanonicalIdentity of observation p among obs.
Identity(p, obs) ==
  LET w == Profile(ProofRow(p))
      lin == CHOOSE x \in w.lins : TRUE
      mapped == NsnsOfLin(lin, obs)
  IN CASE Cardinality(w.nsns) = 1 -> <<"nsn", CHOOSE x \in w.nsns : TRUE>>
       [] Cardinality(w.nsns) > 1 -> <<"isolated", p>>
       [] w.nsns = {} /\ Cardinality(w.lins) = 1 ->
            IF Cardinality(mapped) = 1 THEN <<"nsn", CHOOSE x \in mapped : TRUE>>
                                       ELSE <<"lin", lin>>
       [] w.nsns = {} /\ Cardinality(w.lins) > 1 -> <<"isolated", p>>
       [] OTHER -> IF w.line # Blank THEN <<"line", w.line>> ELSE <<"isolated", p>>

GroupOf(p, obs) == LET id == Identity(p, obs) IN {q \in obs : Identity(q, obs) = id}
Groups(obs) == {GroupOf(p, obs) : p \in obs}

Found(S) == {p \in S : proof[p].found}
WithPhotos(S) == {p \in Found(S) : PhotoOf(p) # {}}
Newest(S) == ProofRow(Max(S))

\* The row a link to the group is stored with: its newest photo, else its
\* newest find, else its newest observation.
Representative(g) ==
  IF WithPhotos(g) # {} THEN Newest(WithPhotos(g))
  ELSE IF Found(g) # {} THEN Newest(Found(g)) ELSE Newest(g)

\* loadApprovedEquipmentObservationNeighborhood: approved proof that shares a
\* row, a saved item, a wording or an identifier with the keys.
Neighborhood(keys) ==
  {p \in Approved :
     LET w == Profile(ProofRow(p))
     IN \/ ProofRow(p) \in keys.rows
        \/ w.item \in keys.items
        \/ w.line \in keys.lines
        \/ Overlap(w.lins, keys.lins)
        \/ Overlap(w.nsns, keys.nsns)}
NoKeys == [rows |-> {}, items |-> {}, lines |-> {}, lins |-> {}, nsns |-> {}]
\* inventoryHistoryCandidateKeys
KeysOf(obs) ==
  LET ws == {Profile(ProofRow(p)) : p \in obs}
  IN [rows |-> {}, items |-> {w.item : w \in ws} \ {0}, lines |-> {w.line : w \in ws} \ {Blank},
      lins |-> UNION {w.lins : w \in ws}, nsns |-> UNION {w.nsns : w \in ws}]

\* Faulty: one query around the targets and no second hop.
TargetObservationsDirect(targets) ==
  LET own == Neighborhood([NoKeys EXCEPT !.rows = targets])
  IN own \cup Neighborhood(KeysOf(own))

\* loadRememberedEquipmentTargetGroups: what is read to rebuild the groups of
\* the target rows without reading the whole history.
TargetObservations(targets) ==
  LET own == Neighborhood([NoKeys EXCEPT !.rows = targets])
      direct == own \cup Neighborhood(KeysOf(own))
      nsns == {n \in KeysOf(direct).nsns : \E p \in own : Identity(p, direct) = <<"nsn", n>>}
      byNsn == Neighborhood([NoKeys EXCEPT !.nsns = nsns])
      byLin == Neighborhood([NoKeys EXCEPT !.lins = KeysOf(byNsn).lins])
  IN direct \cup byNsn \cup byLin

-----------------------------------------------------------------------------
(***************************************************************************)
(* What a page shows of the past, and what a guest's photo URL serves.     *)
(***************************************************************************)

ApprovedOf(r) == {p \in Approved : ProofRow(p) = r}
Elsewhere(obs, s) == {p \in obs : SessionOf[ProofRow(p)] # s}
ActiveRows(s) == IF inventory[s] = "active" THEN {r \in Added : SessionOf[r] = s} ELSE {}

\* The target of a remembered link, when it lies in another inventory.
LinkTarget(l, s) ==
  IF link[l] # None /\ SessionOf[link[l]] # s THEN {link[l]} ELSE {}

\* The group a link recalls for a row of inventory s, s itself left out.  A
\* row may have several observations; which of their groups is taken does
\* not matter unless they are isolated, and then it is arbitrary.
Recalled(l, s) ==
  LET targets == UNION {LinkTarget(k, s) : k \in Lines \ {Blank}}
      obs == TargetObservations(targets)
      mine == {p \in obs : ProofRow(p) \in LinkTarget(l, s)}
  IN IF l = Blank \/ LinkTarget(l, s) = {} \/ mine = {} THEN {}
     ELSE Elsewhere(GroupOf(Max(mine), obs), s)

\* loadPriorInventoryHistory: a link, where there is one, replaces the
\* approved proof of other inventories that matches the row.
History(r) ==
  LET s == SessionOf[r]
      recalled == Recalled(row[r].line, s)
  IN IF recalled # {} THEN recalled
     ELSE Matched(r, Elsewhere(Approved, s))

\* The photos of the newest find that has any.
HistoryPhotos(r) ==
  LET good == WithPhotos(History(r)) IN IF good = {} THEN {} ELSE PhotoOf(Max(good))

OwnPhotos(r) == UNION {PhotoOf(p) : p \in {q \in Proofs : ProofRow(q) = r}}
ItemPhotos(i) == IF i = 0 THEN {} ELSE item[i].media

\* GET /api/inventory/sessions/:sessionId for a guest of s: photos of the
\* proof made there, of the saved items of its rows, and of their history.
Disclosed(s) ==
  UNION {OwnPhotos(r) \cup ItemPhotos(row[r].item) \cup HistoryPhotos(r) :
           r \in ActiveRows(s)}

UsedIn(s) == {row[r].item : r \in ActiveRows(s)} \ {0}
SavedAs(p) == {i \in SavedItems : p \in item[i].media}

\* Faulty: a link opens the photos of its target row, not of the row's group.
ByAliasAlone(p, s) ==
  /\ p \in Found(Approved)
  /\ \E r \in ActiveRows(s) : ProofRow(p) = link[row[r].line]

\* rememberedEquipmentAliasAuthorizesSubmissionPhoto: the photo belongs to
\* the group of a link target, rebuilt from the target's own observations,
\* the photo's, and those that map their LINs.
ByAlias(p, s) ==
  LET targets == {link[row[r].line] : r \in ActiveRows(s)} \ {None}
      candidates == {q \in Approved : (q = p /\ proof[q].found)
                                        \/ (q # p /\ ProofRow(q) \in targets)}
      lins == UNION {Profile(ProofRow(q)).lins :
                       q \in {c \in candidates : /\ Profile(ProofRow(c)).nsns = {}
                                                /\ Cardinality(Profile(ProofRow(c)).lins) = 1}}
      mapping == {q \in Approved : /\ Cardinality(Profile(ProofRow(q)).lins) = 1
                                   /\ Cardinality(Profile(ProofRow(q)).nsns) = 1
                                   /\ Overlap(Profile(ProofRow(q)).lins, lins)}
  IN /\ p \in candidates
     /\ \E g \in Groups(candidates \cup mapping) :
          p \in g /\ \E q \in g : ProofRow(q) \in targets

\* authorizedMediaRecord for a guest of s: proof of that inventory unless it
\* was saved for an item not used there, approved finds of matching rows
\* elsewhere, the groups of remembered links, and the items in use.
Serves(p, s) ==
  \/ SessionOf[ProofRow(p)] = s /\ (SavedAs(p) = {} \/ Overlap(SavedAs(p), UsedIn(s)))
  \/ /\ SessionOf[ProofRow(p)] # s /\ p \in Found(Approved)
     /\ \E r \in ActiveRows(s) : RowsMatch(ProofRow(p), r)
  \/ ByAlias(p, s)
  \/ Overlap(SavedAs(p), UsedIn(s))

\* loadUnlinkedActiveEquipmentRows: what the library page offers to link.
Unfinished(r) == row[r].status \in {"open", "review"}
VisibleLinks == {l \in Lines : link[l] # None /\ ApprovedOf(link[l]) # {}}
Unlinked ==
  {r \in Added : /\ inventory[SessionOf[r]] = "active" /\ Unfinished(r)
                 /\ row[r].line \notin VisibleLinks
                 /\ Matched(r, Approved) = {}}

-----------------------------------------------------------------------------
(***************************************************************************)
(* Initial state and steps.                                                *)
(***************************************************************************)

NoRow == [line |-> Blank, item |-> 0, sugg |-> 0, status |-> "absent"]

LibraryInit ==
  /\ inventory = [s \in Inventories |-> "active"]
  /\ row = [r \in Rows |-> NoRow]
  /\ proof = <<>>
  /\ item = <<>>
  /\ link = [l \in Lines |-> None]

Actionable(r) == {p \in Proofs : ProofRow(p) = r /\ proof[p].state = "pending"}

\* A close is refused while proof awaits a decision; a closed inventory can
\* be opened again.
SetInventory(s, to) ==
  /\ inventory[s] # to
  /\ to = "closed" => \A r \in Rows : SessionOf[r] = s => Actionable(r) = {}
  /\ inventory' = [inventory EXCEPT ![s] = to]
  /\ UNCHANGED <<row, proof, item, link>>

Suggestion(l) == IF Matches(l) = {} THEN 0 ELSE CHOOSE i \in Matches(l) : TRUE

Inserted(r, l, i, sugg) ==
  /\ row[r].status = "absent"
  /\ row' = [row EXCEPT ![r] = [line |-> l, item |-> i, sugg |-> sugg, status |-> "open"]]
  /\ UNCHANGED <<inventory, proof, item, link>>

\* POST sessions/:id/items: a named item is taken as confirmed; otherwise the
\* wording may suggest one.
AddRow(r, l, i) ==
  Inserted(r, l, i, IF i = 0 /\ l # Blank THEN Suggestion(l) ELSE 0)

\* POST sessions/:id/items/bulk: a match is confirmed without asking only for
\* a single piece whose identifier belongs to no other saved item.
Reusable(r, l) ==
  {i \in Matches(l) \cap UniqueMatch(l) :
     r \notin Lots /\ Score(l, i) >= 900 /\ Identified(l, i)}
ImportRow(r, l) ==
  IF Reusable(r, l) # {} THEN Inserted(r, l, CHOOSE i \in Reusable(r, l) : TRUE, 0)
                         ELSE Inserted(r, l, 0, Suggestion(l))

ResolveMatch(r, confirm) ==
  /\ row[r].sugg # 0 /\ inventory[SessionOf[r]] # "closed"
  /\ row' = [row EXCEPT ![r].item = IF confirm THEN row[r].sugg ELSE @, ![r].sugg = 0]
  /\ UNCHANGED <<inventory, proof, item, link>>

\* Proof superseded, rejected or withdrawn is told apart nowhere below: it is
\* "dropped".  New proof supersedes what is undecided on the row, and its photo stays.
Submit(r, report) ==
  /\ r \in Added /\ inventory[SessionOf[r]] # "closed" /\ Len(proof) < MaxProofs
  /\ Cardinality(UNION {Actionable(q) : q \in Rows \ {r}}) < MaxOpen
  /\ proof' = Append([p \in Proofs |->
                        IF p \in Actionable(r) THEN [proof[p] EXCEPT !.state = "dropped"]
                        ELSE proof[p]],
                     [row |-> r, found |-> report.found, photo |-> report.photo,
                      state |-> "pending"])
  /\ row' = [row EXCEPT ![r].status = "review"]
  /\ UNCHANGED <<inventory, item, link>>

Decided(p, state) ==
  /\ proof[p].state = "pending" /\ inventory[SessionOf[ProofRow(p)]] # "closed"
  /\ proof' = [proof EXCEPT ![p].state = state]
  /\ UNCHANGED <<inventory, link>>

Reject(p) ==
  /\ Decided(p, "dropped")
  /\ row' = [row EXCEPT ![ProofRow(p)].status = "open"]
  /\ UNCHANGED item

Approve(p) ==
  /\ row[ProofRow(p)].sugg = 0
  /\ Decided(p, "approved")
  /\ row' = [row EXCEPT ![ProofRow(p)].status = "done"]
  /\ UNCHANGED item

FirstOf(seq) == IF seq = <<>> THEN {} ELSE {Head(seq)}

\* Faulty: the photos kept before are not replaced.
SavedItemAdding(r, photos) ==
  IF row[r].item # 0 THEN [item[row[r].item] EXCEPT !.media = @ \cup photos]
  ELSE [title |-> row[r].line, lin |-> FirstOf(LineLins[row[r].line]),
        nsn |-> FirstOf(LineNsns[row[r].line]), media |-> photos]

\* The item a save leaves: the row's own, or a new one named by the wording.
SavedItem(r, photos) ==
  IF row[r].item # 0 THEN [item[row[r].item] EXCEPT !.media = photos]
  ELSE [title |-> row[r].line, lin |-> FirstOf(LineLins[row[r].line]),
        nsn |-> FirstOf(LineNsns[row[r].line]), media |-> photos]

\* Approval that keeps the item for later inventories, with photos of this
\* proof or photos it has; another item's photo is refused.
SavePhotos(p) ==
  LET i == row[ProofRow(p)].item
  IN {keep \in SUBSET (PhotoOf(p) \cup ItemPhotos(i)) :
        /\ Cardinality(keep) <= MaxSaved
        /\ \A x \in keep : SavedAs(x) \subseteq {i}}
ApproveAndSave(p, keep) ==
  LET r == ProofRow(p)
      i == IF row[r].item = 0 THEN Len(item) + 1 ELSE row[r].item
  IN /\ row[r].sugg = 0 /\ proof[p].found /\ r \notin Lots
     /\ keep \in SavePhotos(p) /\ i <= MaxItems
     /\ Decided(p, "approved")
     /\ item' = IF row[r].item = 0 THEN Append(item, SavedItem(r, keep))
                ELSE [item EXCEPT ![i] = SavedItem(r, keep)]
     /\ row' = [row EXCEPT ![r].item = i, ![r].sugg = 0, ![r].status = "done"]

\* POST /api/inventory/items (its reference uploads are in Media).
CreateItem(c) ==
  /\ Len(item) < MaxItems
  /\ item' = Append(item, [title |-> c.title, lin |-> c.lin, nsn |-> c.nsn, media |-> {}])
  /\ UNCHANGED <<inventory, row, proof, link>>

\* POST equipment-library/links.  The entry is looked up in a projection read
\* before the transaction, which checks both rows again; the evidence of a
\* row is never taken back, so an older projection names a row as good.
Remember(r, g) ==
  LET t == Representative(g)
  IN /\ inventory[SessionOf[r]] = "active" /\ Unfinished(r)
     /\ row[r].line # Blank
     /\ ApprovedOf(t) # {} /\ t # r /\ SessionOf[t] # SessionOf[r]
     /\ link[row[r].line] = None
     /\ link' = [link EXCEPT ![row[r].line] = t]
     /\ UNCHANGED <<inventory, row, proof, item>>

\* DELETE equipment-library/links/:linkId
Forget(l) ==
  /\ link[l] # None
  /\ link' = [link EXCEPT ![l] = None]
  /\ UNCHANGED <<inventory, row, proof, item>>

RowStep(r) ==
  \/ \E l \in LinesOf[r], i \in IF r \in Named THEN 0..Len(item) ELSE {0} : AddRow(r, l, i)
  \/ \E l \in LinesOf[r] \ {Blank} : ImportRow(r, l)
  \/ \E confirm \in BOOLEAN : ResolveMatch(r, confirm)
  \/ \E report \in ReportsOf[r] : Submit(r, report)
  \/ \E g \in Groups(Approved) : Remember(r, g)

ReviewStep(p) ==
  \/ Reject(p) \/ Approve(p)
  \/ \E keep \in SavePhotos(p) : ApproveAndSave(p, keep)

LibraryNext ==
  \/ \E s \in Closable, to \in {"active", "closed"} : SetInventory(s, to)
  \/ \E r \in Rows : RowStep(r)
  \/ \E p \in Proofs : ReviewStep(p)
  \/ \E c \in Catalogue : CreateItem(c)
  \/ \E l \in Lines : Forget(l)

LibrarySpec == LibraryInit /\ [][LibraryNext]_libraryVars

-----------------------------------------------------------------------------
\* Types, and more than the CHECK of db/024 that a row's item is never its
\* suggestion: a row with an item has none.
LibraryTypeOK ==
  /\ inventory \in [Inventories -> {"active", "closed"}]
  /\ item \in Seq([title: Lines, lin: SUBSET Lins, nsn: SUBSET Nsns,
                   media: SUBSET (1..MaxProofs)])
  /\ Len(item) <= MaxItems
  /\ row \in [Rows -> [line: Lines, item: 0..Len(item), sugg: 0..Len(item),
                       status: {"absent", "open", "review", "done"}]]
  /\ \A r \in Rows : row[r].item # 0 => row[r].sugg = 0
  /\ proof \in Seq([row: Rows, found: BOOLEAN, photo: BOOLEAN,
                    state: {"pending", "dropped", "approved"}])
  /\ Len(proof) <= MaxProofs
  /\ \A p \in Proofs : ProofRow(p) \in Added
  /\ link \in [Lines -> Rows \cup {None}]

\* A guest can open every photo the page of the inventory shows: the queries
\* that write the page (routes.js:7030, :1277) and the check behind the photo
\* URL (media.js:310, :184) read different tables in different ways, and the
\* comment at media.js:366 promises that disclosure and access are aligned.
DisclosedIsReadable ==
  \A s \in Inventories : \A p \in Disclosed(s) : Serves(p, s)

\* The groups of link targets are the groups of the whole history, although
\* they are rebuilt from a few neighbourhood queries (routes.js:1575): no
\* observation that would join a group, or split it, is left unread.
NeighborhoodExact ==
  \A s \in Inventories :
    LET targets == UNION {LinkTarget(l, s) : l \in Lines \ {Blank}}
        obs == TargetObservations(targets)
    IN \A p \in Approved : ProofRow(p) \in targets =>
         p \in obs /\ (obs # Approved => GroupOf(p, obs) = GroupOf(p, Approved))

\* Two pieces with different NSNs are never one entry of the library, not
\* even through a LIN that fits both (inventory-history.js:270).
NsnsStayApart ==
  \A g \in Groups(Approved) : \A p, q \in g :
    LET a == Profile(ProofRow(p)).nsns  b == Profile(ProofRow(q)).nsns
    IN a # {} /\ b # {} => a = b

\* What the library page offers to link has no history to show yet.
UnlinkedHasNoHistory == \A r \in Unlinked : History(r) = {}

\* The groups of the equipment history are those of all of it, hold one piece of
\* equipment each, and what has none is offered.
GroupsAreExact == NeighborhoodExact /\ NsnsStayApart /\ UnlinkedHasNoHistory

\* A photo kept with a saved item is an approved find of a row linked to it,
\* is kept by no other item, and an item keeps at most three: the unique key
\* and the trigger of db/024 never fail a review.
SavedPhotosAreProof == LibraryTypeOK /\
  \A i \in SavedItems :
    /\ Cardinality(item[i].media) <= MaxSaved
    /\ \A p \in item[i].media :
         /\ p \in Proofs /\ SavedAs(p) = {i}
         /\ proof[p].state = "approved" /\ proof[p].found
         /\ row[ProofRow(p)].item = i
=============================================================================
