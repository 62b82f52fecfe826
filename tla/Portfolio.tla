------------------------------ MODULE Portfolio ------------------------------
(***************************************************************************)
(* A freelancer's portfolio: the works that are filled in during           *)
(* onboarding and their photos, the files and rows of the photos on the    *)
(* server, and an item that clients of the API save while photos are       *)
(* deleted.                                                                *)
(*                                                                         *)
(* The browser writes works one at a time, from events that come in any    *)
(* order, and each write may fail to be persisted.  The server saves an    *)
(* item in one transaction of several statements, and stores or deletes a  *)
(* photo in two steps without one.                                         *)
(***************************************************************************)
EXTENDS Integers, Sequences, SequencesExt

CONSTANTS
  Photos,      \* bound: photos that are chosen
  Texts,       \* bound: what is typed
  Saves,       \* bound: requests that save the item
  MaxEntries   \* MAX_ITEMS

ASSUME PortfolioAssumption == MaxEntries \in Nat \ {0}

VARIABLES
  entries,    \* the works in the browser's store, in memory
  kept,       \* what localStorage has of them, which survives a reload
  items,      \* the works as they were rendered last
  card,       \* what the browser waits for, by photo
  stage,      \* how far onboarding is
  posted,     \* the request that uploads a photo, on the server
  files,      \* photos on the disk
  rows,       \* rows of media_files
  item,       \* the row of portfolio_items
  shown,      \* its rows of portfolio_media
  save,       \* requests that save it
  deleting    \* requests that delete a photo, by how far they are

\* History variable: what was put into each work last, and whether an upload
\* or its write has failed there since.
VARIABLE put

portfolioVars == <<entries, kept, items, card, stage, posted, files, rows, item, shown, save, deleting, put>>
browser == <<entries, kept, items, card, stage, put>>
media == <<posted, files, rows, deleting>>
portfolio == <<item, shown, save>>

Nothing == "-"
EmptyEntry == [text |-> Nothing, pic |-> Nothing, img |-> Nothing]
EmptyPut == [text |-> Nothing, img |-> Nothing, upload |-> "fine"]
NoCard == [at |-> 0, reads |-> FALSE, waits |-> FALSE]
Awaited(c) == IF c.reads \/ c.waits THEN c ELSE NoCard
NoSave == [pc |-> "none", pics |-> {}, cleared |-> {}]

PortfolioInit ==
  /\ entries = <<>> /\ items = <<>> /\ put = <<>> /\ kept = [works |-> <<>>, put |-> <<>>]
  /\ card = [p \in Photos |-> NoCard]
  /\ stage = "fill"
  /\ posted = [p \in Photos |-> "none"]
  /\ files = {} /\ rows = {}
  /\ item = [st |-> "none", by |-> Nothing] /\ shown = {}
  /\ save = [s \in Saves |-> NoSave]
  /\ deleting = [p \in Photos |-> "none"]

-----------------------------------------------------------------------------
(***************************************************************************)
(* The works in the browser                                                *)
(***************************************************************************)
Over(patch, work) == [f \in DOMAIN work |-> IF f \in DOMAIN patch THEN patch[f] ELSE work[f]]
Patched(s, i, patch) == [k \in DOMAIN s |-> IF k = i THEN Over(patch, s[k]) ELSE s[k]]

\* Mutant of UpdateItem: the works are those that were rendered.
UpdateItem_Rendered(i, patch) == entries' = Patched(items, i, patch)

\* The store's works, whatever is rendered; the place is the one that the
\* work had when its card was.
UpdateItem(i, patch) == entries' = Patched(entries, i, patch)

\* What is put into a place stays there until something else is.
Put(i, patch) == put' = Patched(put, i, patch)

\* The store is persisted after each write of it.  That fails, and throws,
\* when localStorage is full: then the write is in memory only.
Persisted == kept' = [works |-> entries', put |-> put']
Unpersisted == kept' = kept
Written == Persisted \/ Unpersisted

Render ==
  /\ items # entries /\ items' = entries
  /\ UNCHANGED <<entries, kept, card, stage, put, media, portfolio>>

\* Another step of onboarding, or another field of it, persists them too.
NextStep ==
  /\ stage = "fill"
  /\ UNCHANGED <<entries, items, card, stage, put, media, portfolio>>
  /\ Persisted

AddItem ==
  /\ stage = "fill" /\ Len(entries) < MaxEntries
  /\ entries' = Append(entries, EmptyEntry) /\ put' = Append(put, EmptyPut) /\ Written
  /\ UNCHANGED <<items, card, stage, media, portfolio>>

\* Mutant of RemoveItem: the works are those that were rendered.
RemoveItem_Rendered(i) ==
  /\ stage = "fill" /\ i \in DOMAIN items
  /\ entries' = RemoveAt(items, i)
  /\ put' = IF i \in DOMAIN put THEN RemoveAt(put, i) ELSE put
  /\ Written
  /\ UNCHANGED <<items, card, stage, media, portfolio>>

\* The works after it move up.
RemoveItem(i) ==
  /\ stage = "fill" /\ i \in DOMAIN items
  /\ IF i \in DOMAIN entries
       THEN entries' = RemoveAt(entries, i) /\ put' = RemoveAt(put, i)
       ELSE UNCHANGED <<entries, put>>
  /\ Written
  /\ UNCHANGED <<items, card, stage, media, portfolio>>

Type(i, text) ==
  /\ stage = "fill" /\ i \in DOMAIN items
  /\ UpdateItem(i, [text |-> text]) /\ Put(i, [text |-> text]) /\ Written
  /\ UNCHANGED <<items, card, stage, media, portfolio>>

\* The button is not there while a photo loads, which is not looked at.
RemovePhoto(i) ==
  /\ stage = "fill" /\ i \in DOMAIN items /\ items[i].pic # Nothing
  /\ UpdateItem(i, [img |-> Nothing, pic |-> Nothing])
  /\ Put(i, [img |-> Nothing, upload |-> "fine"]) /\ Written
  /\ UNCHANGED <<items, card, stage, media, portfolio>>

\* A file is read for the preview and sent to the server, also while
\* another one of the same card is.
Choose(i, p) ==
  /\ stage = "fill" /\ i \in DOMAIN items /\ posted[p] = "none"
  /\ card' = [card EXCEPT ![p] = [at |-> i, reads |-> TRUE, waits |-> TRUE]]
  /\ posted' = [posted EXCEPT ![p] = "sent"]
  /\ UNCHANGED <<entries, kept, items, stage, files, rows, deleting, portfolio, put>>

Preview(p) ==
  /\ card[p].reads
  /\ card' = [card EXCEPT ![p] = Awaited([@ EXCEPT !.reads = FALSE])]
  /\ UpdateItem(card[p].at, [pic |-> p]) /\ UNCHANGED put /\ Written
  /\ UNCHANGED <<items, stage, media, portfolio>>

\* The answer; what has failed, or was lost, empties the work's picture and
\* its photo.  So does an answer that cannot be persisted: the write throws
\* where a failed request does.
Uploaded(p, ok) ==
  LET i == card[p].at
      Answered == UpdateItem(i, [img |-> p]) /\ Put(i, [img |-> p, upload |-> "fine"]) /\ Persisted
      Failed(seen) == /\ UpdateItem(i, [pic |-> Nothing, img |-> Nothing])
                      /\ Put(i, seen) /\ Written IN
  /\ card[p].waits /\ (ok => posted[p] = "made")
  /\ card' = [card EXCEPT ![p] = Awaited([@ EXCEPT !.waits = FALSE])]
  /\ IF ok THEN Answered \/ Failed([img |-> p, upload |-> "failed"]) ELSE Failed([upload |-> "failed"])
  /\ UNCHANGED <<items, stage, media, portfolio>>

\* The page goes, and with it what it waits for; what was persisted comes back.
Reload ==
  /\ card' = [p \in Photos |-> NoCard]
  /\ entries' = kept.works /\ items' = kept.works /\ put' = kept.put
  /\ stage' = IF stage = "posting" THEN "fill" ELSE stage
  /\ UNCHANGED <<kept, media, portfolio>>

\* The profile first: if that fails, nothing has happened.
Finish ==
  /\ stage = "fill" /\ stage' = "posting"
  /\ UNCHANGED <<entries, kept, items, card, put, media, portfolio>>

FinishFails ==
  /\ stage = "posting" /\ stage' = "fill"
  /\ UNCHANGED <<entries, kept, items, card, put, media, portfolio>>

\* Then the works, one after the other.  They have no tags, and without
\* tags, which may not be null, none is stored; nobody looks at the answers,
\* nor at those of the photos: there is no work left that they are for.  The
\* empty store takes the place of the persisted one.
PostItems ==
  /\ stage = "posting" /\ stage' = "done"
  /\ entries' = <<>> /\ put' = <<>> /\ items' = <<>> /\ Persisted
  /\ card' = [p \in Photos |-> NoCard]
  /\ UNCHANGED <<media, portfolio>>

-----------------------------------------------------------------------------
(***************************************************************************)
(* Photos on the server                                                    *)
(***************************************************************************)
\* Size, extension and contents are checked before anything is stored.
UploadPhoto(p, ok) ==
  /\ posted[p] = "sent"
  /\ posted' = [posted EXCEPT ![p] = IF ok THEN "checked" ELSE "failed"]
  /\ UNCHANGED <<browser, files, rows, deleting, portfolio>>

\* Written under another name first: it is there whole, or not at all.
SaveFile(p, ok) ==
  /\ posted[p] = "checked"
  /\ posted' = [posted EXCEPT ![p] = IF ok THEN "saved" ELSE "failed"]
  /\ files' = IF ok THEN files \cup {p} ELSE files
  /\ UNCHANGED <<browser, rows, deleting, portfolio>>

\* A file whose row fails stays.
CreateRow(p, ok) ==
  /\ posted[p] = "saved"
  /\ posted' = [posted EXCEPT ![p] = IF ok THEN "made" ELSE "failed"]
  /\ rows' = IF ok THEN rows \cup {p} ELSE rows
  /\ UNCHANGED <<browser, files, deleting, portfolio>>

\* Mutant of FindMedia: the file is deleted first.
FindMedia_File(p) ==
  /\ stage = "done" /\ deleting[p] = "none" /\ p \in rows
  /\ deleting' = [deleting EXCEPT ![p] = "row"]
  /\ files' = files \ {p}
  /\ UNCHANGED <<browser, posted, rows, portfolio>>

\* The clients of the API come after onboarding (a bound).
FindMedia(p) ==
  /\ stage = "done" /\ deleting[p] = "none" /\ p \in rows
  /\ deleting' = [deleting EXCEPT ![p] = "row"]
  /\ UNCHANGED <<browser, posted, files, rows, portfolio>>

\* What refers to the row goes with it; it waits for a save that has just
\* inserted or deleted such a reference.
DeleteRow(p) ==
  /\ deleting[p] = "row"
  /\ \A s \in Saves : /\ save[s].pc = "commit" => p \notin save[s].pics
                      /\ save[s].pc \in {"insert", "commit"} => p \notin save[s].cleared
  /\ rows' = rows \ {p} /\ shown' = shown \ {p}
  /\ deleting' = [deleting EXCEPT ![p] = "file"]
  /\ UNCHANGED <<browser, posted, files, item, save>>

DeleteFile(p) ==
  /\ deleting[p] = "file"
  /\ files' = files \ {p}
  /\ deleting' = [deleting EXCEPT ![p] = "none"]
  /\ UNCHANGED <<browser, posted, rows, portfolio>>

\* The request fails, or the server stops.
DeleteFails(p) ==
  /\ deleting[p] # "none"
  /\ deleting' = [deleting EXCEPT ![p] = "none"]
  /\ UNCHANGED <<browser, posted, files, rows, portfolio>>

-----------------------------------------------------------------------------
(***************************************************************************)
(* The item                                                                *)
(***************************************************************************)
\* Saves of which others do not see the result yet.
Locking == {s \in Saves : save[s].pc \in {"clear", "insert", "commit"}}

\* A new item: what the transaction writes is seen when it is whole.
CreateItem(s, pics) ==
  /\ stage = "done" /\ save[s].pc = "none" /\ item.st = "none"
  /\ pics \subseteq rows
  /\ item' = [st |-> "row", by |-> s] /\ shown' = pics
  /\ save' = [save EXCEPT ![s] = [NoSave EXCEPT !.pc = "done", !.pics = pics]]
  /\ UNCHANGED <<browser, media>>

\* The item that there is has been read: what is not sent is emptied.
UpdateRequested(s, pics) ==
  /\ stage = "done" /\ save[s].pc = "none" /\ item.st = "row"
  /\ save' = [save EXCEPT ![s] = [NoSave EXCEPT !.pc = "update", !.pics = pics]]
  /\ UNCHANGED <<browser, media, item, shown>>

\* The update of the row, which holds it until the end: another one waits.
LockItem(s) ==
  /\ save[s].pc = "update" /\ item.st = "row" /\ Locking = {}
  /\ save' = [save EXCEPT ![s].pc = "clear"]
  /\ UNCHANGED <<browser, media, item, shown>>

ClearPics(s) ==
  /\ save[s].pc = "clear"
  /\ save' = [save EXCEPT ![s].pc = "insert", ![s].cleared = shown]
  /\ UNCHANGED <<browser, media, item, shown>>

\* Photos that are not there fail it.
InsertPics(s) ==
  /\ save[s].pc = "insert" /\ save[s].pics \subseteq rows
  /\ save' = [save EXCEPT ![s].pc = "commit"]
  /\ UNCHANGED <<browser, media, item, shown>>

Commit(s) ==
  /\ save[s].pc = "commit"
  /\ item' = [item EXCEPT !.by = s]
  /\ shown' = (shown \ save[s].cleared) \cup save[s].pics
  /\ save' = [save EXCEPT ![s] = [NoSave EXCEPT !.pc = "done", !.pics = save[s].pics]]
  /\ UNCHANGED <<browser, media>>

\* A statement fails, a deadlock is broken, or the request is gone: it is
\* rolled back.
SaveFails(s) ==
  /\ save[s].pc \in {"update", "clear", "insert", "commit"}
  /\ save' = [save EXCEPT ![s] = [NoSave EXCEPT !.pc = "failed"]]
  /\ UNCHANGED <<browser, media, item, shown>>

DeleteItem ==
  /\ item.st = "row" /\ Locking = {}
  /\ item' = [item EXCEPT !.st = "gone"] /\ shown' = {}
  /\ UNCHANGED <<browser, media, save>>

-----------------------------------------------------------------------------
Fill ==
  \/ Render \/ NextStep \/ AddItem \/ Reload \/ Finish \/ FinishFails \/ PostItems
  \/ \E i \in 1 .. MaxEntries :
       \/ RemoveItem(i) \/ RemovePhoto(i)
       \/ \E t \in Texts : Type(i, t)
       \/ \E p \in Photos : Choose(i, p)
  \/ \E p \in Photos : Preview(p) \/ \E ok \in BOOLEAN : Uploaded(p, ok)

Keep ==
  \E p \in Photos :
    \/ \E ok \in BOOLEAN : UploadPhoto(p, ok) \/ SaveFile(p, ok) \/ CreateRow(p, ok)
    \/ FindMedia(p) \/ DeleteRow(p) \/ DeleteFile(p) \/ DeleteFails(p)

Present ==
  \/ \E s \in Saves :
       \/ \E pics \in SUBSET Photos : CreateItem(s, pics) \/ UpdateRequested(s, pics)
       \/ LockItem(s) \/ ClearPics(s) \/ InsertPics(s) \/ Commit(s) \/ SaveFails(s)
  \/ DeleteItem

PortfolioNext == Fill \/ Keep \/ Present

PortfolioSpec == PortfolioInit /\ [][PortfolioNext]_portfolioVars

-----------------------------------------------------------------------------
(***************************************************************************)
(* Properties                                                              *)
(***************************************************************************)

\* The work has what was put into it; where an upload or its write has failed
\* since, its photo may be gone.
Has(work, filled) ==
  /\ work.text = filled.text
  /\ work.img = filled.img \/ (filled.upload = "failed" /\ work.img = Nothing)

Holds(works, filled) ==
  Len(works) = Len(filled) /\ \A i \in DOMAIN works : Has(works[i], filled[i])

\* Whatever was typed into a work stays in it, and so does the photo that was
\* answered for its place last, unless an upload of that place, or the write
\* of its answer, fails later, in whatever order previews, answers, other
\* works and removals come.  A reload brings back what was put into the works
\* when they were persisted last (updateItem, removeItem, PortfolioCard's
\* upload, useOnboardingStore).
WorkIsKept == Holds(entries, put)

\* An upload that fails leaves the works the photos that they have (the
\* comment on PortfolioCard's upload: on an error only the preview is reset,
\* and imageId remains as is).
ImageIdRemains ==
  [][\A p \in Photos : Uploaded(p, FALSE) =>
       \A i \in DOMAIN entries : entries'[i].img = entries[i].img]_portfolioVars

\* An item shows the photos of the save that its text is from, but for those
\* that were deleted since, and each of them has its file
\* (PortfolioRepositoryAdapter.Update, DeleteMedia, UploadPhoto).
ItemIsWhole ==
  item.st = "row" => /\ shown = save[item.by].pics \cap rows
                     /\ shown \subseteq files

=============================================================================
