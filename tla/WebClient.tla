------------------------------ MODULE WebClient ------------------------------
(***************************************************************************)
(* One browser tab: the snapshot fetch and the EventSource (App.tsx,       *)
(* api/stream.ts), the store they feed (store/snapshot.ts), one chart of   *)
(* the history page (HistoryChartRow.tsx) and the images of the hazards    *)
(* page (HazardCategoryCard.tsx), over the browser's HTTP cache.           *)
(*                                                                         *)
(* Of the server there is what the tab can see: a source's versions, which *)
(* are stored and then broadcast (Pipeline), images whose invalidations    *)
(* share one slot (ImageProxy), and the stream's frames (Hub; with so few  *)
(* of them no channel fills).  A fetchedAt is the version it came with.    *)
(***************************************************************************)
EXTENDS Naturals, Sequences, SequencesExt, FiniteSetsExt, Functions

CONSTANTS Windows,     \* the spans a chart can show
          Images,      \* the images of the hazards page
          Tabs         \* bounds: the pages a tab goes to and fro between, and how many
                       \* versions and invalidations there are in its time

ASSUME ClientAssumption ==
    /\ Windows # {}
    /\ \A t \in Tabs : t.pages \subseteq {"overview", "history", "hazards"} /\ t.versions \in Nat /\ t.invalidations \in Nat

VARIABLES stored,     \* versions with a row in the store
          cached,     \* the version in the server's cache
          last,       \* the newest version ever fetched
          pending,    \* it is not yet in the cache
          announced,  \* the last invalidation of each image, which is the version served
          slot,       \* the image whose invalidation the cache holds: <<>> or <<image>>
          conn,       \* fetching, answered, connecting, gap, open, closed
          wire,       \* frames on their way to the handlers
          snapshot,   \* the version in the client's store, 0 for none
          refresh,    \* imageRefresh
          tab,        \* this tab's bounds
          page,       \* one of them, or gone
          window,     \* the history page's window
          row,        \* the chart
          img,        \* the <img> elements
          http,       \* the browser's cache: rows by window, versions by image
          unseen      \* history: images whose last invalidation no stream delivered

server == <<stored, cached, last, pending, announced, slot>>
view == <<tab, page, window, row, img, http>>
vars == <<server, conn, wire, snapshot, refresh, view, unseen>>

NoRow == [ran |-> <<>>, timer |-> FALSE, fetch |-> <<>>, resp |-> <<>>, loading |-> TRUE, err |-> FALSE]
NoImg == [key |-> 0, shown |-> 0, from |-> ""]

Init ==
    /\ stored = {1} /\ cached = 1 /\ last = 1 /\ pending = FALSE
    /\ announced = [k \in Images |-> 0] /\ slot = <<>>
    /\ conn = "fetching" /\ wire = <<>>
    /\ snapshot = 0 /\ refresh = [k \in Images |-> 0]
    /\ tab \in Tabs /\ page \in tab.pages /\ window \in Windows /\ row = NoRow
    /\ img = [k \in Images |-> NoImg] /\ http = <<>>
    /\ unseen = {}

---------------------------------------------------------------------------
(* The server.                                                             *)

Push(frame) == wire' = IF conn = "open" THEN Append(wire, frame) ELSE wire

\* A tick appends the new version's row, or fails to, ...
StoreRow ==
    /\ ~pending /\ last < tab.versions
    /\ pending' = TRUE /\ last' = last + 1
    /\ stored' \in {stored, stored \cup {last'}}
    /\ UNCHANGED <<cached, announced, slot, conn, wire, snapshot, refresh, view, unseen>>

\* ... and then sets the cache, which broadcasts.
Broadcast ==
    /\ pending /\ pending' = FALSE
    /\ cached' = last
    /\ Push([event |-> "update", version |-> last])
    /\ UNCHANGED <<stored, last, announced, slot, conn, snapshot, refresh, view, unseen>>

Announcements == FoldFunction(+, 0, announced)

\* The proxy has stored image k's next version and sets the slot.
Announce(k) ==
    /\ Announcements < tab.invalidations
    /\ announced' = [announced EXCEPT ![k] = @ + 1]
    /\ slot' = <<k>>
    /\ Push([event |-> "invalidate", image |-> k, version |-> announced'[k]])
    /\ unseen' = IF conn = "open" THEN unseen ELSE unseen \cup {k}
    /\ UNCHANGED <<stored, cached, last, pending, conn, snapshot, refresh, view>>

SnapshotFrame == [event |-> "snapshot", version |-> cached, inv |-> [i \in DOMAIN slot |-> <<slot[i], announced[slot[i]]>>]]

---------------------------------------------------------------------------
(* The connection.                                                         *)

\* await fetch('/api/snapshot'): the answer, or none, and then the EventSource.
ApiSnapshot ==
    /\ conn = "fetching" /\ conn' = "answered"
    /\ \/ wire' = <<SnapshotFrame>>
       \/ UNCHANGED wire
    /\ UNCHANGED <<server, snapshot, refresh, view, unseen>>

\* Mutant of OpenStream: it does not look whether the app is unmounted.
OpenStreamAlways ==
    /\ conn = "answered" /\ wire = <<>>
    /\ conn' = "connecting"
    /\ UNCHANGED <<server, wire, snapshot, refresh, view, unseen>>
OpenStream ==
    /\ conn = "answered" /\ wire = <<>>
    /\ conn' = IF page = "gone" THEN "closed" ELSE "connecting"
    /\ UNCHANGED <<server, wire, snapshot, refresh, view, unseen>>

\* Hub.Serve writes the snapshot frame and then subscribes.  A browser that
\* reconnects has dispatched what it had received.
StreamConnects ==
    /\ conn = "connecting" /\ wire = <<>>
    /\ conn' = "gap" /\ wire' = <<SnapshotFrame>>
    /\ UNCHANGED <<server, snapshot, refresh, view, unseen>>

StreamSubscribes ==
    /\ conn = "gap" /\ conn' = "open"
    /\ UNCHANGED <<server, wire, snapshot, refresh, view, unseen>>

InvalidatesIn(frames) == {frames[i].image : i \in {j \in DOMAIN frames : frames[j].event = "invalidate"}}

\* The connection breaks: what had not arrived is lost.
StreamBreaks ==
    /\ conn \in {"gap", "open"} /\ conn' = "connecting"
    /\ \E n \in 0..Len(wire) :
          /\ wire' = SubSeq(wire, 1, n)
          /\ unseen' = unseen \cup InvalidatesIn(SubSeq(wire, n + 1, Len(wire)))
    /\ UNCHANGED <<server, snapshot, refresh, view>>

\* A process that starts again has the newest row in its cache, and no invalidation.
ServerRestarts ==
    /\ cached' = Max(stored) /\ pending' = FALSE /\ slot' = <<>>
    /\ conn' = IF conn \in {"gap", "open"} THEN "connecting" ELSE conn
    /\ wire' = IF conn \in {"gap", "open"} THEN <<>> ELSE wire
    /\ unseen' = unseen \cup (IF conn \in {"gap", "open"} THEN InvalidatesIn(wire) ELSE {})
    /\ UNCHANGED <<stored, last, announced, snapshot, refresh, view>>

---------------------------------------------------------------------------
(* The store's handlers.                                                   *)

Refreshed(pairs) == [k \in Images |-> IF \E p \in pairs : p[1] = k THEN (CHOOSE p \in pairs : p[1] = k)[2] ELSE refresh[k]]

\* Mutant of SetSnapshot: it does not keep the earlier invalidations.
SetSnapshotForgets(frame) ==
    /\ snapshot' = frame.version
    /\ refresh' = [k \in Images |-> IF <<k>> = [i \in DOMAIN frame.inv |-> frame.inv[i][1]] THEN frame.inv[1][2] ELSE 0]
SetSnapshot(frame) ==
    /\ snapshot' = frame.version
    /\ refresh' = Refreshed(ToSet(frame.inv))
ApplyUpdate(frame) == snapshot' = frame.version /\ UNCHANGED refresh
ApplyImageInvalidate(frame) == refresh' = Refreshed({<<frame.image, frame.version>>}) /\ UNCHANGED snapshot

Receive ==
    /\ wire # <<>> /\ wire' = Tail(wire)
    /\ LET frame == Head(wire) IN
         /\ \/ frame.event = "snapshot" /\ SetSnapshot(frame)
            \/ frame.event = "update" /\ ApplyUpdate(frame)
            \/ frame.event = "invalidate" /\ ApplyImageInvalidate(frame)
         /\ unseen' = unseen \ {k \in Images : refresh'[k] = announced[k]}
    /\ UNCHANGED <<server, conn, view>>

---------------------------------------------------------------------------
(* The chart.                                                              *)

Deps == [window |-> window, version |-> snapshot]
chartFrame == <<server, conn, wire, snapshot, refresh, tab, page, window, img, unseen>>

\* run: the closure's window; an earlier request was cancelled by the cleanup.
Running(r) == [r EXCEPT !.timer = FALSE, !.fetch = <<[window |-> r.ran.window, answer |-> <<>>]>>,
                        !.loading = TRUE, !.err = FALSE]

\* Mutant of Effect: an advance of the source only cancels.
EffectCancels ==
    /\ page = "history" /\ row.ran # Deps
    /\ LET cleaned == [row EXCEPT !.ran = Deps, !.timer = FALSE, !.fetch = <<>>]
       IN row' = IF row.ran = <<>> \/ row.ran.window # window THEN Running(cleaned) ELSE cleaned
    /\ UNCHANGED <<chartFrame, http>>
\* Mutant of Effect: the cleanup does not cancel the request.
EffectKeepsFetch ==
    /\ page = "history" /\ row.ran # Deps
    /\ row' = IF row.fetch = <<>> /\ (row.ran = <<>> \/ row.ran.window # window)
              THEN Running([row EXCEPT !.ran = Deps])
              ELSE [row EXCEPT !.ran = Deps, !.timer = row.fetch = <<>>]
    /\ UNCHANGED <<chartFrame, http>>

\* After a render with other dependencies: the cleanup, and a request at once for
\* a mount or a new window, or in 250 ms for a source that advanced.
Effect ==
    /\ page = "history" /\ row.ran # Deps
    /\ LET cleaned == [row EXCEPT !.ran = Deps, !.timer = FALSE, !.fetch = <<>>]
       IN row' = IF row.ran = <<>> \/ row.ran.window # window
                 THEN Running(cleaned)
                 ELSE [cleaned EXCEPT !.timer = TRUE]
    /\ UNCHANGED <<chartFrame, http>>

DebounceOver ==
    /\ row.timer
    /\ row' = Running(row)
    /\ UNCHANGED <<chartFrame, http>>

Asked == row.fetch # <<>> /\ row.fetch[1].answer = <<>>
Answer(answer) == row' = [row EXCEPT !.fetch[1].answer = <<answer>>]

\* An entry of less than 60 s answers; else the server does, with the rows it has.
FetchFromCache ==
    /\ Asked /\ row.fetch[1].window \in DOMAIN http
    /\ Answer([ok |-> TRUE, rows |-> http[row.fetch[1].window], from |-> "cache"])
    /\ UNCHANGED <<chartFrame, http>>
FetchFromServer ==
    /\ Asked /\ row.fetch[1].window \notin DOMAIN http
    /\ \/ /\ Answer([ok |-> TRUE, rows |-> stored, from |-> "server"])
          /\ http' = (row.fetch[1].window :> stored) @@ http
       \/ /\ Answer([ok |-> FALSE, rows |-> {}, from |-> "server"])
          /\ UNCHANGED http
    /\ UNCHANGED chartFrame

Settle ==
    /\ row.fetch # <<>> /\ row.fetch[1].answer # <<>>
    /\ LET answer == row.fetch[1].answer[1]
           done == [row EXCEPT !.fetch = <<>>, !.loading = FALSE]
       IN row' = IF answer.ok
                 THEN [done EXCEPT !.resp = <<[window |-> row.fetch[1].window, rows |-> answer.rows, from |-> answer.from]>>]
                 ELSE [done EXCEPT !.err = TRUE]
    /\ UNCHANGED <<chartFrame, http>>

---------------------------------------------------------------------------
(* The images: an <img> is keyed on its refresh, and its src never changes. *)

Load(k, shown, from) == [img EXCEPT ![k] = [key |-> refresh[k], shown |-> shown, from |-> from]]

Remount(k) == page = "hazards" /\ (img[k].from = "" \/ img[k].key # refresh[k])

\* The browser's cache answers for 60 s, and for 15 minutes more while it
\* revalidates behind the page's back; then the server does.
ImageFromCache(k) ==
    /\ Remount(k) /\ k \in DOMAIN http
    /\ img' = Load(k, http[k], "cache")
    /\ http' \in {http, [http EXCEPT ![k] = announced[k]]}
    /\ UNCHANGED <<server, conn, wire, snapshot, refresh, tab, page, window, row, unseen>>
ImageFromServer(k) ==
    /\ Remount(k) /\ k \notin DOMAIN http
    /\ \/ img' = Load(k, announced[k], "server") /\ http' = (k :> announced[k]) @@ http
       \/ img' = Load(k, 0, "error") /\ UNCHANGED http
    /\ UNCHANGED <<server, conn, wire, snapshot, refresh, tab, page, window, row, unseen>>

Expire(url) ==
    /\ url \in DOMAIN http
    /\ http' = Restrict(http, DOMAIN http \ {url})
    /\ UNCHANGED <<server, conn, wire, snapshot, refresh, tab, page, window, row, img, unseen>>

---------------------------------------------------------------------------
(* The user.                                                               *)

SetWindow(w) ==
    /\ page = "history" /\ w # window /\ window' = w
    /\ UNCHANGED <<server, conn, wire, snapshot, refresh, tab, page, row, img, http, unseen>>

\* The page that is left is unmounted, with its timer and its request.
Navigate(to) ==
    /\ page # "gone" /\ page # to /\ page' = to
    /\ row' = NoRow /\ img' = [k \in Images |-> NoImg]
    /\ UNCHANGED <<server, conn, wire, snapshot, refresh, tab, window, http, unseen>>

\* The app unmounts: a stream is closed, one that is still to come when it comes.
Unmount ==
    /\ page # "gone" /\ page' = "gone"
    /\ row' = NoRow /\ img' = [k \in Images |-> NoImg]
    /\ conn' = IF conn \in {"connecting", "gap", "open"} THEN "closed" ELSE conn
    /\ wire' = IF conn' = "closed" THEN <<>> ELSE wire
    /\ UNCHANGED <<server, snapshot, refresh, tab, window, http, unseen>>

Connection == ApiSnapshot \/ OpenStream \/ StreamConnects \/ StreamSubscribes \/ Receive
Chart == Effect \/ DebounceOver \/ FetchFromCache \/ FetchFromServer \/ Settle

Next ==
    \/ StoreRow \/ Broadcast \/ ServerRestarts \/ StreamBreaks \/ Unmount
    \/ Connection \/ Chart
    \/ \E k \in Images : Announce(k) \/ ImageFromCache(k) \/ ImageFromServer(k)
    \/ \E url \in Windows \cup Images : Expire(url)
    \/ \E w \in Windows : SetWindow(w)
    \/ \E to \in tab.pages : Navigate(to)

(* Fairness: the browser runs its tasks, timers and effects; the server answers *)
(* /api/snapshot and /api/history (both have a limit of 5 s) or the fetch fails. *)
Spec == Init /\ [][Next]_vars /\ WF_vars(ApiSnapshot) /\ WF_vars(OpenStream) /\ WF_vars(Receive) /\ WF_vars(Chart)

---------------------------------------------------------------------------
(* Properties.                                                             *)

\* A chart at rest shows the window that is chosen and every stored row of the
\* versions the page has shown, though its requests were cancelled, debounced and
\* reordered: unless it shows an error or the browser's cache answered.
ChartShowsLatest ==
    page = "history" /\ row.ran = Deps /\ ~row.loading /\ ~row.timer /\ ~row.err =>
        /\ row.resp # <<>> /\ row.resp[1].window = window
        /\ row.resp[1].from = "cache" \/ stored \cap 1..snapshot \subseteq row.resp[1].rows

\* Once the page, the window and the source are at rest, a chart settles: no
\* request that was cancelled leaves it loading.
ChartSettles ==
    <>[][FALSE]_<<page, window, snapshot>> => []<>(~row.loading \/ page # "history")

\* On a live and drained stream an image is the one last announced, through
\* reconnects and restarts, but for three cases: its load failed, the browser's
\* cache answered, or the announcement fell into a gap of the stream and another
\* image took the slot they share.
ImageOldOnlyByCacheOrGap ==
    page = "hazards" /\ conn = "open" /\ wire = <<>> =>
        \A k \in Images :
            \/ Remount(k) \/ k \in unseen
            \/ img[k].from # "server" \/ img[k].shown = announced[k]

\* App.tsx:79: an app that is unmounted leaves no EventSource open, whenever its
\* snapshot arrives.
NoStreamLeaks == page = "gone" => conn \in {"fetching", "answered", "closed"}

\* docs/plans/2026-05-03-phase3-image-proxy-design.md:660: the new key of the
\* <img> forces a request that bypasses the browser's cache.
ReloadBypassesCache ==
    \A k \in Images :
        page = "hazards" /\ img[k].from \in {"cache", "server"} /\ img[k].key = refresh[k]
            => img[k].shown >= refresh[k]
=============================================================================
