------------------------------ MODULE SearchIndex ------------------------------
(***************************************************************************)
(* The search index of a project (search/, cli/search.py, the index handler *)
(* of cli/main.py, _clean_search_docs of core/ops/gc.py): four files, each  *)
(* with a lock of its own, and no lock over them all.  Handlers add a       *)
(* transcript to one after the other, commands rebuild and clean them, and  *)
(* searches read them without a lock.  A transcript is its path; what it    *)
(* holds is a version, whose terms are given.                               *)
(***************************************************************************)
EXTENDS Forge

CONSTANTS
    Docs, Terms,
    TermsIn,       \* the terms of each version
    Attempts,      \* MAX_ATTEMPTS of the work queue
    MaxChanges,    \* bound: transcripts copied and deleted
    MaxStoreFaults,     \* bound: lock timeouts and deaths
    MaxIndexCommands    \* bound

ASSUME SearchAssumption ==
    /\ None \notin {"rebuild-index", "clean"} /\ IsFiniteSet(Docs)
    /\ TermsIn \in Seq(SUBSET Terms) /\ Attempts \in Nat \ {0}
    /\ MaxChanges \in Nat /\ MaxStoreFaults \in Nat /\ MaxIndexCommands \in Nat

VARIABLES
    version,       \* of each transcript on disk; 0 where there is none
    documents,     \* documents.json: the transcripts with metadata
    bm25,          \* bm25_index.json: the version of each, the documents of each term
    content,       \* content.json: the version of each
    indexed_files, \* state.json: the version of each, told by mtime and size
    marker,        \* the index marker of each and its attempts
    stopping,      \* the transcripts whose Stop hook is yet to enqueue the marker
    handler,       \* the handler of each marker: it holds the marker's lock
    command,       \* rebuild-index or clean
    search,        \* a search
    disturbed,     \* history: a command failed or met a handler, and none rebuilt since
    dropped,       \* history: the transcripts whose marker was not enqueued
    changes, storeFaults, indexCommands

stores == <<documents, bm25, content, indexed_files>>
indexHistory == <<disturbed, dropped, changes, storeFaults, indexCommands>>
searchVars == <<version, stores, marker, stopping, handler, command, search, indexHistory>>

Versions == 0..Len(TermsIn)
Nothing == [d \in Docs |-> 0]
TermsOf(v) == IF v = 0 THEN {} ELSE TermsIn[v]
Keys == {d \in Docs : bm25.keys[d] # 0}
NoHandler == [step |-> 0, extracted |-> 0]
NoCommand == [name |-> None, step |-> 0, alone |-> TRUE, snapshot |-> Nothing, removed |-> {},
              missing |-> {}]
NoSearch == [step |-> 0, term |-> None, keys |-> Nothing, calm |-> FALSE]

SearchInit ==
    /\ version = Nothing /\ documents = {} /\ content = Nothing /\ indexed_files = Nothing
    /\ bm25 = [built |-> FALSE, keys |-> Nothing, freqs |-> [t \in Terms |-> 0]]
    /\ marker = [d \in Docs |-> [state |-> "none", attempts |-> 0]]
    /\ handler = [d \in Docs |-> NoHandler] /\ command = NoCommand /\ search = NoSearch
    /\ stopping = {} /\ dropped = {} /\ disturbed = FALSE
    /\ changes = 0 /\ storeFaults = 0 /\ indexCommands = 0

Busy == {d \in Docs : handler[d].step # 0}
Commanded == command.name # None

-----------------------------------------------------------------------------
(* The transcripts and their markers.                                      *)

\* Stop copies the transcript, then enqueues the marker.
CopyTranscript(d) ==
    /\ d \notin stopping /\ version[d] < Len(TermsIn) /\ changes < MaxChanges
    /\ changes' = changes + 1
    /\ version' = [version EXCEPT ![d] = @ + 1]
    /\ stopping' = stopping \cup {d}
    /\ command' = [command EXCEPT !.missing = @ \ {d}]
    /\ UNCHANGED <<stores, marker, handler, search, disturbed, dropped, storeFaults, indexCommands>>

\* Mutant: whoever has the marker's lock.
Unlocked(d) == TRUE

MarkerFree(d) == d \notin Busy

EnqueueIndex(d) ==
    /\ d \in stopping /\ MarkerFree(d)
    /\ stopping' = stopping \ {d} /\ dropped' = dropped \ {d}
    /\ marker' = [marker EXCEPT ![d] = [state |-> "pending", attempts |-> 0]]
    /\ UNCHANGED <<version, stores, handler, command, search, disturbed, changes, storeFaults,
                   indexCommands>>

\* Verification blocks the stop, or a handler has the lock for longer than the hook waits.
IndexMarkerDropped(d) ==
    /\ d \in stopping
    /\ stopping' = stopping \ {d} /\ dropped' = dropped \cup {d}
    /\ UNCHANGED <<version, stores, marker, handler, command, search, disturbed, changes, storeFaults,
                   indexCommands>>

\* Forge keeps the copies; the user may not.
DeleteTranscript(d) ==
    /\ version[d] # 0 /\ changes < MaxChanges
    /\ changes' = changes + 1
    /\ version' = [version EXCEPT ![d] = 0]
    /\ UNCHANGED <<stores, marker, stopping, handler, command, search, disturbed, dropped, storeFaults,
                   indexCommands>>

-----------------------------------------------------------------------------
(* What a store takes in and gives up, under its own lock.                 *)

Less(freqs, terms) == [t \in Terms |-> IF t \in terms /\ freqs[t] > 0 THEN freqs[t] - 1 ELSE freqs[t]]
More(freqs, terms) == [t \in Terms |-> IF t \in terms THEN freqs[t] + 1 ELSE freqs[t]]

\* Mutant: what the document counted for is not taken back.
UpsertOnTop(index, d, v) ==
    [built |-> TRUE, keys |-> [index.keys EXCEPT ![d] = v],
     freqs |-> More(index.freqs, TermsOf(v))]

\* upsert_document
Upsert(index, d, v) ==
    [built |-> TRUE, keys |-> [index.keys EXCEPT ![d] = v],
     freqs |-> More(Less(index.freqs, TermsOf(index.keys[d])), TermsOf(v))]

\* remove_document
RemoveKey(index, d) ==
    [index EXCEPT !.keys[d] = 0, !.freqs = Less(@, TermsOf(index.keys[d]))]

\* The index of all the documents at once.
Bulk(snapshot) ==
    [built |-> TRUE, keys |-> snapshot,
     freqs |-> [t \in Terms |-> Cardinality({d \in Docs : t \in TermsOf(snapshot[d])})]]

\* add
Add(store, d, v) ==
    /\ documents' = IF store = "documents" THEN documents \cup {d} ELSE documents
    /\ bm25' = IF store = "bm25" THEN Upsert(bm25, d, v) ELSE bm25
    /\ content' = IF store = "content" THEN [content EXCEPT ![d] = v] ELSE content

\* replace_all
Replace(store, snapshot) ==
    /\ documents' = IF store = "documents" THEN {d \in Docs : snapshot[d] # 0} ELSE documents
    /\ bm25' = IF store = "bm25" THEN Bulk(snapshot) ELSE bm25
    /\ content' = IF store = "content" THEN snapshot ELSE content

-----------------------------------------------------------------------------
(* The handler of a marker.                                                *)

\* Mutant: the index before the metadata.
HandlerStoresIndexFirst == <<"bm25", "documents", "content">>

HandlerStores == <<"documents", "bm25", "content">>

\* _try_write_error: the last attempt moves the marker to failed/.
Retried(m) ==
    [state |-> IF m.attempts + 1 >= Attempts THEN "failed" ELSE "pending", attempts |-> m.attempts + 1]

FailMarker(d) ==
    /\ marker' = [marker EXCEPT ![d] = Retried(@)]
    /\ handler' = [handler EXCEPT ![d] = NoHandler]

\* A transcript that is not there is an error.
StartIndexing(d) ==
    /\ marker[d].state = "pending" /\ d \notin Busy
    /\ IF version[d] = 0 THEN FailMarker(d) /\ UNCHANGED <<command, disturbed>>
       ELSE /\ handler' = [handler EXCEPT ![d] = [step |-> 1, extracted |-> version[d]]]
            /\ disturbed' = (disturbed \/ Commanded)
            /\ command' = [command EXCEPT !.alone = ~Commanded]
            /\ UNCHANGED marker
    /\ UNCHANGED <<version, stores, stopping, search, dropped, changes, storeFaults, indexCommands>>

AddToStore(d) ==
    /\ handler[d].step \in DOMAIN HandlerStores
    /\ Add(HandlerStores[handler[d].step], d, handler[d].extracted)
    /\ handler' = [handler EXCEPT ![d].step = @ + 1]
    /\ UNCHANGED <<version, indexed_files, marker, stopping, command, search, indexHistory>>

\* mark_indexed looks at the transcript as it is now; then the marker goes.
EndIndexing(d) ==
    /\ handler[d].step > Len(HandlerStores)
    /\ IF version[d] = 0 THEN FailMarker(d) /\ UNCHANGED indexed_files
       ELSE /\ indexed_files' = [indexed_files EXCEPT ![d] = version[d]]
            /\ marker' = [marker EXCEPT ![d].state = "none"]
            /\ handler' = [handler EXCEPT ![d] = NoHandler]
    /\ UNCHANGED <<version, documents, bm25, content, stopping, command, search, indexHistory>>

\* The lock of a store is not free in time, or the process dies.
IndexingFails(d, dies) ==
    /\ d \in Busy /\ storeFaults < MaxStoreFaults
    /\ storeFaults' = storeFaults + 1
    /\ IF dies THEN handler' = [handler EXCEPT ![d] = NoHandler] /\ UNCHANGED marker
       ELSE FailMarker(d)
    /\ UNCHANGED <<version, stores, stopping, command, search, disturbed, dropped, changes,
                   indexCommands>>

-----------------------------------------------------------------------------
(* The commands.                                                           *)

\* Mutant: the content is left as it is.
RebuiltStoresTwo == <<"documents", "bm25">>

RebuiltStores == <<"documents", "bm25", "content">>

Begin(name, snapshot) ==
    /\ ~Commanded /\ indexCommands < MaxIndexCommands
    /\ indexCommands' = indexCommands + 1
    /\ disturbed' = (disturbed \/ Busy # {})
    /\ command' = [NoCommand EXCEPT !.name = name, !.step = 1, !.alone = (Busy = {}),
                      !.snapshot = snapshot, !.missing = {d \in Docs : version[d] = 0}]
    /\ search' = [search EXCEPT !.calm = FALSE]
    /\ UNCHANGED <<version, stores, marker, stopping, handler, dropped, changes, storeFaults>>

\* Nothing is rebuilt in a project without artifacts.
BeginRebuild == (\E d \in Docs : version[d] # 0) /\ Begin("rebuild-index", version)

ReplaceStore ==
    /\ command.name = "rebuild-index" /\ command.step \in DOMAIN RebuiltStores
    /\ Replace(RebuiltStores[command.step], command.snapshot)
    /\ command' = [command EXCEPT !.step = @ + 1]
    /\ UNCHANGED <<version, indexed_files, marker, stopping, handler, search, indexHistory>>

\* What is there is marked, what is not is pruned.
EndRebuild ==
    /\ command.name = "rebuild-index" /\ command.step > Len(RebuiltStores)
    /\ indexed_files' = [d \in Docs |-> IF version[d] = 0 THEN 0
                                        ELSE IF command.snapshot[d] # 0 THEN version[d]
                                        ELSE indexed_files[d]]
    /\ command' = NoCommand
    /\ disturbed' = (disturbed /\ ~command.alone)
    /\ UNCHANGED <<version, documents, bm25, content, marker, stopping, handler, search, dropped,
                   changes, storeFaults, indexCommands>>

\* prune_missing
PruneDocuments ==
    LET orphans == {d \in documents : version[d] = 0}
    IN  /\ command.name = "clean" /\ command.step = 1
        /\ documents' = documents \ orphans
        /\ command' = [command EXCEPT !.step = 2, !.removed = orphans]
        /\ UNCHANGED <<version, bm25, content, indexed_files, marker, stopping, handler, search, indexHistory>>

\* Mutant: the contents of what was removed stay.
WithoutKeyOnly(d) == bm25' = RemoveKey(bm25, d) /\ UNCHANGED content

WithoutKey(d) ==
    /\ bm25' = RemoveKey(bm25, d)
    /\ content' = [content EXCEPT ![d] = 0]

RemoveDocument(d) ==
    /\ command.name = "clean" /\ d \in command.removed
    /\ WithoutKey(d)
    /\ command' = [command EXCEPT !.removed = @ \ {d}]
    /\ UNCHANGED <<version, documents, indexed_files, marker, stopping, handler, search, indexHistory>>

EndClean ==
    /\ command.name = "clean" /\ command.step = 2 /\ command.removed = {}
    /\ indexed_files' = [d \in Docs |-> IF version[d] = 0 THEN 0 ELSE indexed_files[d]]
    /\ command' = NoCommand
    /\ UNCHANGED <<version, documents, bm25, content, marker, stopping, handler, search, indexHistory>>

\* What it has done stays done.
CommandFails ==
    /\ Commanded /\ storeFaults < MaxStoreFaults
    /\ storeFaults' = storeFaults + 1 /\ disturbed' = TRUE
    /\ command' = NoCommand
    /\ UNCHANGED <<version, stores, marker, stopping, handler, search, dropped, changes,
                   indexCommands>>

-----------------------------------------------------------------------------
(* A search for one term: the index is read, the metadata, the contents.   *)

\* Nothing is found where there is no index.
ReadIndex(t) ==
    /\ search.step = 0 /\ bm25.built
    /\ search' = [NoSearch EXCEPT !.step = 1, !.term = t, !.keys = bm25.keys,
                      !.calm = ~disturbed /\ ~Commanded]
    /\ UNCHANGED <<version, stores, marker, stopping, handler, command, indexHistory>>

\* Every indexed document must have metadata.
MissingMetadata == {d \in Docs \ documents : search.keys[d] # 0}

ReadMetadata ==
    /\ search.step = 1
    /\ search' = IF MissingMetadata = {} THEN [search EXCEPT !.step = 2] ELSE NoSearch
    /\ UNCHANGED <<version, stores, marker, stopping, handler, command, indexHistory>>

\* Every document that holds the term must have its content.
MissingContent == {d \in Docs : search.term \in TermsOf(search.keys[d]) /\ content[d] = 0}

ReadContent ==
    /\ search.step = 2
    /\ search' = NoSearch
    /\ UNCHANGED <<version, stores, marker, stopping, handler, command, indexHistory>>

SearchNext ==
    \/ \E d \in Docs :
          \/ CopyTranscript(d) \/ EnqueueIndex(d) \/ IndexMarkerDropped(d) \/ DeleteTranscript(d)
          \/ StartIndexing(d) \/ AddToStore(d) \/ EndIndexing(d)
          \/ \E dies \in BOOLEAN : IndexingFails(d, dies)
          \/ RemoveDocument(d)
    \/ BeginRebuild \/ ReplaceStore \/ EndRebuild
    \/ Begin("clean", Nothing) \/ PruneDocuments \/ EndClean \/ CommandFails
    \/ \E t \in Terms : ReadIndex(t)
    \/ ReadMetadata \/ ReadContent

SearchSpec == SearchInit /\ [][SearchNext]_searchVars

-----------------------------------------------------------------------------
SearchTypeOK ==
    /\ version \in [Docs -> Versions] /\ documents \subseteq Docs
    /\ content \in [Docs -> Versions] /\ indexed_files \in [Docs -> Versions]
    /\ bm25.keys \in [Docs -> Versions] /\ bm25.freqs \in [Terms -> 0..Cardinality(Docs)]
    /\ stopping \subseteq Docs /\ dropped \subseteq Docs
    /\ marker \in [Docs -> [state : {"none", "pending", "failed"}, attempts : 0..Attempts]]
    /\ handler \in [Docs -> [step : 0..(Len(HandlerStores) + 1), extracted : Versions]]
    /\ command.name \in {None, "rebuild-index", "clean"} /\ search.step \in 0..2

\* Whoever adds, adds again, removes and rebuilds, and whatever fails, a term counts for as many
\* documents as hold it: the counts that rank results never drift (bm25_store.py: "retries don't
\* create duplicates or double-increment").
FrequenciesAgree ==
    \A t \in Terms : bm25.freqs[t] = Cardinality({d \in Docs : t \in TermsOf(bm25.keys[d])})

Unfinished == {d \in Docs : marker[d].state # "none"} \cup Busy

\* Handlers that fail or die at any step, and are retried, leave an index in which every key has
\* metadata and, unless its marker is still there, its content, of the version that is scored; so
\* do commands that meet no handler, and a rebuild restores it after those that do or that fail.
IndexIsWhole ==
    ~disturbed /\ ~Commanded =>
        \A d \in Keys : d \in documents /\ (d \notin Unfinished => content[d] = bm25.keys[d])

\* When nothing is left to do for a transcript its last version is what is found.
IndexIsFresh ==
    ~disturbed /\ ~Commanded =>
        \A d \in Docs \ (Unfinished \cup stopping \cup dropped) :
            version[d] # 0 => bm25.keys[d] = version[d]

\* A search that meets no command is never refused for want of metadata, however handlers write
\* while it reads, and of content only while a marker of what it found is still there.
SearchesMeetHandlers ==
    search.calm => /\ search.step = 1 => MissingMetadata = {}
                   /\ search.step = 2 => MissingContent \subseteq Unfinished

\* A clean that meets no handler leaves nothing of a transcript that was gone when it began.
CleanLeavesNoOrphan ==
    [][(command.name = "clean" /\ ~Commanded' /\ ~disturbed') =>
          \A d \in command.missing :
              version[d] = 0 => /\ d \notin documents' /\ bm25'.keys[d] = 0
                                /\ content'[d] = 0 /\ indexed_files'[d] = 0]_searchVars

\* The index is sound: whatever step fails or dies and however handlers, commands and
\* searches interleave it counts right, is whole and fresh, searches that meet no command
\* are answered from it, and a clean leaves nothing of what is gone.
IndexIsSound ==
    /\ [](SearchTypeOK /\ FrequenciesAgree /\ IndexIsWhole /\ IndexIsFresh /\ SearchesMeetHandlers)
    /\ CleanLeavesNoOrphan
===============================================================================
