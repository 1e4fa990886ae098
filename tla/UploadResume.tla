---------------------------- MODULE UploadResume ----------------------------
(***************************************************************************)
(* The resumable upload of a file in mirror mode: upload_file (remote.rs)  *)
(* sends start, offset, chunk and finish requests, each retried on a new   *)
(* connection, and the daemon (daemon.rs) gathers the chunks in a file     *)
(* next to the destination that it names after the upload.                 *)
(*                                                                         *)
(* A request whose connection broke may be lost, or the thread of that     *)
(* connection may still deal with it at any later time, beside those of    *)
(* the connections that followed, its answer going nowhere.  An upload     *)
(* that fails or whose process dies leaves its temporary file to the next  *)
(* one with that name.                                                     *)
(*                                                                         *)
(* A content is a sequence of chunks; version v of the file is Size[v]     *)
(* chunks v.                                                               *)
(***************************************************************************)
EXTENDS Naturals, Sequences, FiniteSets, SequencesExt

CONSTANTS Versions,     \* contents the local file takes on
          Size,         \* their sizes in chunks
          Name,         \* their upload ids: path, size and time stamp
          Retries,      \* operation_retries
          QuietFile,    \* whether the file is left alone while it is uploaded
          MaxBreaks,    \* bound: broken connections
          MaxEdits,     \* bound: local edits
          MaxCrashes    \* bound: deaths of the client

ASSUME SizeAssumption == Size \in [Versions -> Nat]

VARIABLES local,        \* the version of the local file
          dest,         \* content at the destination
          temps,        \* temporary files on the server, by upload
          journal,      \* uploads in the client's journal file
          client,       \* upload_file
          reqs,         \* requests on their way or under way, as they were sent
          breaks, edits, crashes

VARIABLES begun, landed, \* history: contents started with; whether the content came to dest
          source,        \* history: the upload that put dest in place
          touched        \* history: uploads whose temporary file was changed between the
                         \* check and the rename of a finish request, by another request

server == <<dest, temps>>
bounds == <<breaks, edits, crashes>>
history == <<begun, landed, source>>
vars == <<local, server, journal, client, reqs, bounds, history, touched>>

Content(v) == [i \in 1..Size[v] |-> v]
Hole == "hole"
NoFile == <<"none">>
Names == {Name[v] : v \in Versions}

WriteAt(f, i, x) ==
  [j \in 1..(IF i > Len(f) THEN i ELSE Len(f)) |->
     IF j = i THEN x ELSE IF j <= Len(f) THEN f[j] ELSE Hole]

Init ==
  /\ local \in Versions
  /\ dest = NoFile
  /\ temps = [n \in Names |-> NoFile]
  /\ journal = {} /\ reqs = <<>>
  /\ client = [result |-> "none", pc |-> "idle", ver |-> local, hash |-> <<>>, tries |-> 0]
  /\ breaks = 0 /\ edits = 0 /\ crashes = 0
  /\ begun = {} /\ landed = FALSE /\ touched = {} /\ source = Name[local]

-----------------------------------------------------------------------------
(* The client. *)

\* A request carries what the client has at hand: a chunk its place and data,
\* finish the checksum of all that was read.  live: the client waits for it.
Request(c) ==
  [live |-> TRUE, kind |-> c.pc, id |-> Name[c.ver], hash |-> c.hash, step |-> "new"]
Abandoned == [i \in 1..Len(reqs) |-> [reqs[i] EXCEPT !.live = FALSE]]

Uploading == client.pc # "idle"

\* record and complete (journal.rs): the file is read, changed and put in place
\* by a rename.
Recorded(n) == journal \cup {n}
Completed(n) == journal \ {n}

Failed == [client EXCEPT !.result = "failed", !.pc = "idle"]

\* Mutant: nothing is recorded before the upload.
BeginUnrecorded ==
  /\ ~Uploading /\ dest # Content(local)
  /\ client' = [result |-> "open", pc |-> "start", ver |-> local, hash |-> <<>>, tries |-> 0]
  /\ reqs' = Append(reqs, Request(client'))
  /\ begun' = begun \cup {Content(local)} /\ landed' = FALSE /\ UNCHANGED source
  /\ UNCHANGED <<local, server, journal, bounds, touched>>

\* A file is uploaded while the destination differs; its journal entry is saved
\* first.
Begin ==
  /\ ~Uploading /\ dest # Content(local)
  /\ journal' = Recorded(Name[local])
  /\ client' = [result |-> "open", pc |-> "start", ver |-> local, hash |-> <<>>, tries |-> 0]
  /\ reqs' = Append(reqs, Request(client'))
  /\ begun' = begun \cup {Content(local)} /\ landed' = FALSE /\ UNCHANGED source
  /\ UNCHANGED <<local, server, bounds, touched>>

\* The file is read on, or is at its end.
ReadOn(c) ==
  LET file == Content(local)
      read == Len(c.hash)
  IN IF read < Len(file) THEN [c EXCEPT !.pc = "chunk", !.hash = Append(@, file[read + 1])]
     ELSE [c EXCEPT !.pc = "finish"]

\* What the client does when its request is answered: next is its state after
\* that.  Nobody reads the answer to a request that was given up.
Answered(i, next) ==
  LET others == RemoveAt(reqs, i)
  IN IF reqs[i].live
     THEN /\ client' = [next EXCEPT !.tries = 0]
          /\ reqs' = IF next.pc = "idle" THEN others ELSE Append(others, Request(client'))
     ELSE UNCHANGED client /\ reqs' = others

\* The connection breaks: op connects and sends the request again, or gives up.
Break ==
  /\ Uploading /\ breaks < MaxBreaks
  /\ breaks' = breaks + 1
  /\ IF client.tries < Retries
     THEN /\ client' = [client EXCEPT !.tries = @ + 1]
          /\ reqs' = Append(Abandoned, Request(client'))
     ELSE client' = Failed /\ reqs' = Abandoned
  /\ UNCHANGED <<local, server, journal, edits, crashes, history, touched>>

\* The client's process dies.
Crash ==
  /\ Uploading /\ crashes < MaxCrashes
  /\ crashes' = crashes + 1
  /\ client' = Failed /\ reqs' = Abandoned
  /\ UNCHANGED <<local, server, journal, breaks, edits, history, touched>>

LoseRequest(i) ==
  /\ ~reqs[i].live
  /\ reqs' = RemoveAt(reqs, i)
  /\ UNCHANGED <<local, server, journal, client, bounds, history, touched>>

Edit ==
  /\ edits < MaxEdits /\ (QuietFile => ~Uploading)
  /\ edits' = edits + 1
  /\ local' \in Versions \ {local}
  /\ UNCHANGED <<server, journal, client, reqs, breaks, crashes, history, touched>>

-----------------------------------------------------------------------------
(* The daemon.  A request is carried out in one step, except for finish,   *)
(* which reads the whole temporary file before it renames it.              *)

Start(i, r) ==
  /\ r.kind = "start"
  /\ temps' = [temps EXCEPT ![r.id] = IF @ = NoFile THEN <<>> ELSE @]
  /\ Answered(i, [client EXCEPT !.pc = "offset"])
  /\ UNCHANGED <<local, dest, journal, bounds, history>>

\* The client goes on behind what the server has, hashing what it skips: up to
\* the size it took at first, or to the end of a file that was cut since.
Offset(i, r) ==
  LET have == IF temps[r.id] = NoFile THEN 0 ELSE Len(temps[r.id])
      skip == Min({have, Size[client.ver], Size[local]})
  IN /\ r.kind = "offset"
     /\ Answered(i, ReadOn([client EXCEPT !.hash = [j \in 1..skip |-> local]]))
     /\ UNCHANGED <<local, server, journal, bounds, history>>

Chunk(i, r) ==
  /\ r.kind = "chunk"
  /\ \/ /\ temps[r.id] = NoFile
        /\ Answered(i, Failed)
        /\ UNCHANGED temps
     \/ /\ temps[r.id] # NoFile
        /\ temps' = [temps EXCEPT ![r.id] = WriteAt(@, Len(r.hash), Last(r.hash))]
        /\ Answered(i, ReadOn(client))
  /\ UNCHANGED <<local, dest, journal, bounds, history>>

\* Mutant: only the length is compared.
CheckLength(i, r) ==
  /\ r.kind = "finish" /\ r.step = "new"
  /\ \/ /\ temps[r.id] # NoFile /\ Len(temps[r.id]) = Len(r.hash)
        /\ reqs' = [reqs EXCEPT ![i].step = "checked"]
        /\ UNCHANGED <<temps, client>>
     \/ /\ temps[r.id] = NoFile \/ Len(temps[r.id]) # Len(r.hash)
        /\ temps' = [temps EXCEPT ![r.id] = NoFile]
        /\ Answered(i, Failed)
  /\ UNCHANGED <<local, dest, journal, bounds, history>>

\* Mutant: a file that does not match is kept.
CheckAndKeep(i, r) ==
  /\ r.kind = "finish" /\ r.step = "new"
  /\ \/ /\ temps[r.id] = r.hash
        /\ reqs' = [reqs EXCEPT ![i].step = "checked"]
        /\ UNCHANGED client
     \/ temps[r.id] # r.hash /\ Answered(i, Failed)
  /\ UNCHANGED <<local, server, journal, bounds, history>>

\* The checksum: a file that does not match is removed.
Check(i, r) ==
  /\ r.kind = "finish" /\ r.step = "new"
  /\ \/ /\ temps[r.id] = r.hash
        /\ reqs' = [reqs EXCEPT ![i].step = "checked"]
        /\ UNCHANGED <<temps, client>>
     \/ /\ temps[r.id] # r.hash
        /\ temps' = [temps EXCEPT ![r.id] = NoFile]
        /\ Answered(i, Failed)
  /\ UNCHANGED <<local, dest, journal, bounds, history>>

Install(i, r) ==
  /\ r.kind = "finish" /\ r.step = "checked"
  /\ \/ /\ temps[r.id] = NoFile
        /\ Answered(i, Failed)
        /\ UNCHANGED <<server, landed, source>>
     \/ /\ temps[r.id] # NoFile
        /\ dest' = temps[r.id] /\ source' = r.id
        /\ temps' = [temps EXCEPT ![r.id] = NoFile]
        /\ landed' = (landed \/ (client.result = "open" /\ dest' = Content(client.ver)))
        /\ reqs' = [reqs EXCEPT ![i].step = "installed"]
        /\ UNCHANGED client
  /\ UNCHANGED <<local, journal, bounds, begun>>

\* Ok: the journal entry goes.
Finish(i, r) ==
  /\ r.kind = "finish" /\ r.step = "installed"
  /\ Answered(i, [client EXCEPT !.result = "ok", !.pc = "idle"])
  /\ journal' = IF r.live THEN Completed(r.id) ELSE journal
  /\ UNCHANGED <<local, server, bounds, history>>

-----------------------------------------------------------------------------
\* A thread per connection: each request is served when its thread gets to it,
\* also between the check and the rename of another one.
Serve(i) ==
  LET r == reqs[i]
  IN /\ Start(i, r) \/ Offset(i, r) \/ Chunk(i, r) \/ Check(i, r) \/ Install(i, r) \/ Finish(i, r)
     /\ touched' = IF /\ temps'[r.id] # temps[r.id]
                      /\ \E j \in 1..Len(reqs) : j # i /\ reqs[j].id = r.id /\ reqs[j].step = "checked"
                   THEN touched \cup {r.id} ELSE touched

Next ==
  \/ Begin \/ Break \/ Crash \/ Edit
  \/ \E i \in 1..Len(reqs) : Serve(i) \/ LoseRequest(i)

Spec == Init /\ [][Next]_vars

\* The daemon serves the request that the client waits for, late ones are served
\* or lost, and the mirror tries again as long as the two sides differ.
FairSpec ==
  /\ Spec
  /\ WF_vars(Begin)
  /\ WF_vars(\E i \in 1..Len(reqs) : Serve(i))

-----------------------------------------------------------------------------
(* Properties. *)

\* The types; the client waits for one answer at a time, and an upload under way
\* is in the journal of interrupted transfers from before its first request.
TypeOK ==
  /\ local \in Versions /\ journal \subseteq Names
  /\ \A n \in Names : temps[n] = NoFile \/ temps[n] \in Seq(Versions \cup {Hole})
  /\ client.pc \in {"idle", "start", "offset", "chunk", "finish"}
  /\ Uploading <=> client.result = "open"
  /\ Uploading => reqs # <<>>
  /\ \A i \in 1..Len(reqs) : reqs[i].live <=> Uploading /\ i = Len(reqs)
  /\ Uploading => Name[client.ver] \in journal

Put == INSTANCE AtomicPut
         WITH Values <- {Content(v) : v \in Versions} \cup {NoFile},
              result <- client.result,
              want <- IF client.result = "none" THEN NoFile ELSE Content(client.ver),
              id <- Name[client.ver],
              late <- breaks + crashes > 0

\* An upload is atomic, whatever was left behind by the ones before it and
\* whenever late requests are served: the destination never gets a file that is
\* part one version and part another, or has a hole, and Ok means that the
\* version was put there, with one exception: a late request changed the
\* temporary file of that upload between the check and the rename of a finish
\* request.
ImplementsAtomicPut == Put!Spec

\* Once connections hold and the file is left alone, it gets to the server:
\* no temporary file left behind can fail all later uploads.
Healed == <>[](dest = Content(local))
=============================================================================
