------------------------- MODULE UploadResumeProofs -------------------------
(***************************************************************************)
(* Uploads keep the promise of AtomicPut, for any versions of a file, of   *)
(* any sizes and under any upload ids, any number of retries, broken       *)
(* connections and deaths of the client, and whenever the daemon deals     *)
(* with the requests that were given up, as long as the file is left alone *)
(* while it is uploaded.  Types hold without that condition.               *)
(***************************************************************************)
EXTENDS UploadResume, SequenceTheorems, TLAPS

Chunks == Versions \cup {Hole}
Files == Seq(Chunks) \cup {NoFile}
Kinds == {"start", "offset", "chunk", "finish"}
Requests == [live : BOOLEAN, kind : Kinds, id : Names, hash : Seq(Versions),
             step : {"new", "checked", "installed"}]
Clients == [result : {"none", "open", "ok", "failed"}, pc : Kinds \cup {"idle"},
            ver : Versions, hash : Seq(Versions), tries : Nat]

\* A client, or a request, with a chunk has read one.
ClientOK(c) ==
  /\ c \in Clients
  /\ c.pc # "idle" <=> c.result = "open"
  /\ c.pc = "chunk" => c.hash # <<>>
RequestsOK ==
  /\ reqs \in Seq(Requests)
  /\ \A i \in 1..Len(reqs) : reqs[i].kind = "chunk" => reqs[i].hash # <<>>

\* The client waits for the last request.
Waiting ==
  /\ Uploading => Len(reqs) > 0
  /\ \A i \in 1..Len(reqs) : reqs[i].live <=> (Uploading /\ i = Len(reqs))

Typed ==
  /\ local \in Versions /\ journal \subseteq Names
  /\ temps \in [Names -> Files]
  /\ ClientOK(client) /\ RequestsOK /\ Waiting
  /\ Uploading => Name[client.ver] \in journal

-----------------------------------------------------------------------------
(* The inductive invariant. *)

\* h is version v up to some chunk.
Prefix(h, v) == h = [j \in 1..Len(h) |-> v] /\ Len(h) <= Size[v]

\* What the client has hashed is a part of the version it was called with, all
\* of it when it finishes.
Reading ==
  /\ begun \subseteq {Content(v) : v \in Versions}
  /\ Uploading =>
       /\ client.ver = local /\ Content(client.ver) \in begun
       /\ Prefix(client.hash, client.ver)
       /\ client.pc = "finish" => client.hash = Content(client.ver)

\* A request that ends an upload has the hash of a whole version, and the one
\* that the client waits for that of the client.
Hashes ==
  \A i \in 1..Len(reqs) :
    /\ reqs[i].kind = "finish" => reqs[i].hash \in begun
    /\ reqs[i].live /\ reqs[i].kind = "finish" => reqs[i].hash = Content(client.ver)

\* The request that the client waits for is one of its upload.
Owned == \A i \in 1..Len(reqs) : reqs[i].live => reqs[i].id = Name[client.ver]

\* Once checked, the temporary file is what the client hashed, and once
\* installed it is at the destination, unless another request changed it in
\* between.
Checked ==
  \A i \in 1..Len(reqs) :
    reqs[i].step = "checked" => temps[reqs[i].id] = reqs[i].hash \/ reqs[i].id \in touched
Installed ==
  \A i \in 1..Len(reqs) :
    reqs[i].live /\ reqs[i].step = "installed" => landed \/ reqs[i].id \in touched

\* A request that nobody waits for comes from a broken connection or a death.
Late ==
  /\ breaks \in Nat /\ crashes \in Nat
  /\ \A i \in 1..Len(reqs) : ~reqs[i].live => breaks + crashes > 0

IInv == Typed /\ Reading /\ Hashes /\ Owned /\ Checked /\ Installed /\ Late

-----------------------------------------------------------------------------
(* Sequences and files. *)

\* What is left when one element of a sequence is taken out.
LEMMA RemoveAtIs ==
  ASSUME NEW S, NEW s \in Seq(S), NEW i \in 1..Len(s)
  PROVE  /\ RemoveAt(s, i) \in Seq(S) /\ Len(RemoveAt(s, i)) = Len(s) - 1
         /\ \A j \in 1..Len(s) - 1 : RemoveAt(s, i)[j] = IF j < i THEN s[j] ELSE s[j + 1]
<1> DEFINE a == SubSeq(s, 1, i - 1)
           b == SubSeq(s, i + 1, Len(s))
<1>1. Len(s) \in Nat /\ \A j \in 1..Len(s) : s[j] \in S
  BY ElementOfSeq, LenProperties
<1>2. a \in Seq(S) /\ Len(a) = i - 1 /\ \A j \in 1..i - 1 : a[j] = s[j]
  BY <1>1, SubSeqProperties
<1>3. b \in Seq(S) /\ Len(b) = Len(s) - i /\ \A j \in 1..Len(s) - i : b[j] = s[j + i]
  BY <1>1, SubSeqProperties
<1>4. RemoveAt(s, i) = a \o b
  BY DEF RemoveAt
<1> HIDE DEF a, b
<1>5. /\ a \o b \in Seq(S) /\ Len(a \o b) = Len(s) - 1
      /\ \A j \in 1..Len(s) - 1 : (a \o b)[j] = IF j <= i - 1 THEN a[j] ELSE b[j - (i - 1)]
  <2>1. /\ a \o b \in Seq(S) /\ Len(a \o b) = Len(a) + Len(b)
        /\ \A j \in 1..Len(a) + Len(b) : (a \o b)[j] = IF j <= Len(a) THEN a[j] ELSE b[j - Len(a)]
    BY <1>2, <1>3, ConcatProperties
  <2>2. Len(a) + Len(b) = Len(s) - 1
    BY <1>1, <1>2, <1>3
  <2> QED
    BY <1>2, <2>1, <2>2
<1> QED
  BY <1>1, <1>2, <1>3, <1>4, <1>5

\* What a sequence of one more element is.
LEMMA AppendIs ==
  ASSUME NEW S, NEW s \in Seq(S), NEW x \in S
  PROVE  /\ Append(s, x) \in Seq(S) /\ Len(Append(s, x)) = Len(s) + 1
         /\ \A j \in 1..Len(s) : Append(s, x)[j] = s[j]
         /\ Append(s, x)[Len(s) + 1] = x
OBVIOUS

\* A chunk written to a temporary file leaves a file of chunks, with a hole
\* where it was written behind the end.
LEMMA WriteAtTyped ==
  ASSUME NEW f \in Seq(Chunks), NEW i \in Nat, NEW x \in Versions
  PROVE  WriteAt(f, i, x) \in Seq(Chunks)
<1> DEFINE n == IF i > Len(f) THEN i ELSE Len(f)
<1>1. Len(f) \in Nat /\ n \in Nat /\ \A j \in 1..Len(f) : f[j] \in Chunks
  BY ElementOfSeq, LenProperties
<1>2. WriteAt(f, i, x) = [j \in 1..n |-> IF j = i THEN x ELSE IF j <= Len(f) THEN f[j] ELSE Hole]
  BY DEF WriteAt
<1> HIDE DEF n
<1>3. WriteAt(f, i, x) \in [1..n -> Chunks]
  BY <1>1, <1>2 DEF Chunks
<1> QED
  BY <1>1, <1>3, SeqDef

\* A version has its size in chunks.
LEMMA ContentIs ==
  ASSUME NEW v \in Versions
  PROVE  /\ Size[v] \in Nat /\ Content(v) \in Seq(Versions) /\ Len(Content(v)) = Size[v]
         /\ \A j \in 1..Size[v] : Content(v)[j] = v
<1>1. Size[v] \in Nat
  BY SizeAssumption
<1>2. Content(v) \in [1..Size[v] -> Versions]
  BY DEF Content
<1> QED
  BY <1>1, <1>2, SeqDef DEF Content

-----------------------------------------------------------------------------
(* The list of requests. *)

\* A client that waits sends a request of its kind.
LEMMA RequestIs ==
  ASSUME NEW c, ClientOK(c), c.pc # "idle"
  PROVE  /\ Request(c) \in Requests /\ Request(c).live /\ Request(c).kind = c.pc
         /\ Request(c).hash = c.hash /\ Request(c).step = "new" /\ Request(c).id = Name[c.ver]
         /\ Request(c).kind = "chunk" => Request(c).hash # <<>>
<1>1. Name[c.ver] \in Names /\ c.pc \in Kinds /\ c.hash \in Seq(Versions)
  BY DEF ClientOK, Clients, Names
<1>2. Request(c) \in Requests
  BY <1>1 DEF Request, Requests
<1> QED
  BY <1>2 DEF Request, ClientOK

\* The requests of a list are requests.
LEMMA RequestsTyped ==
  ASSUME Typed
  PROVE  /\ Len(reqs) \in Nat /\ reqs \in Seq(Requests)
         /\ \A i \in 1..Len(reqs) : reqs[i] \in Requests /\ reqs[i].id \in Names
<1>1. \A i \in 1..Len(reqs) : reqs[i] \in Requests
  BY ElementOfSeq DEF Typed, RequestsOK
<1> QED
  BY <1>1 DEF Typed, RequestsOK, Requests

\* Requests that were given up differ in that nobody waits for them.
LEMMA AbandonedIs ==
  ASSUME Typed
  PROVE  /\ Abandoned \in Seq(Requests) /\ Len(Abandoned) = Len(reqs)
         /\ \A i \in 1..Len(reqs) :
              /\ Abandoned[i] \in Requests /\ ~Abandoned[i].live
              /\ Abandoned[i].kind = reqs[i].kind /\ Abandoned[i].id = reqs[i].id
              /\ Abandoned[i].hash = reqs[i].hash /\ Abandoned[i].step = reqs[i].step
<1>1. Len(reqs) \in Nat /\ \A i \in 1..Len(reqs) : reqs[i] \in Requests
  BY RequestsTyped
<1>2. ASSUME NEW i \in 1..Len(reqs)
      PROVE  /\ Abandoned[i] \in Requests /\ ~Abandoned[i].live
             /\ Abandoned[i].kind = reqs[i].kind /\ Abandoned[i].id = reqs[i].id
             /\ Abandoned[i].hash = reqs[i].hash /\ Abandoned[i].step = reqs[i].step
  <2>1. reqs[i] \in Requests
    BY <1>1
  <2>2. Abandoned[i] = [reqs[i] EXCEPT !.live = FALSE]
    BY DEF Abandoned
  <2>3. Abandoned[i] \in Requests
    BY <2>1, <2>2 DEF Requests
  <2> QED
    BY <2>1, <2>2, <2>3 DEF Requests
<1>3. Abandoned \in [1..Len(reqs) -> Requests]
  BY <1>2 DEF Abandoned
<1> QED
  BY <1>1, <1>2, <1>3, SeqDef

\* An answer: the request goes, and the client that waited for it sends the next
\* one, or is at its end.
LEMMA AnsweredStep ==
  ASSUME Typed, NEW i \in 1..Len(reqs), NEW next, Answered(i, next),
         reqs[i].live => ClientOK(next)
  PROVE  /\ ClientOK(client') /\ RequestsOK' /\ Waiting'
         /\ ~reqs[i].live =>
              /\ client' = client /\ Len(reqs') = Len(reqs) - 1
              /\ \A j \in 1..Len(reqs) - 1 : reqs'[j] = IF j < i THEN reqs[j] ELSE reqs[j + 1]
         /\ reqs[i].live =>
              /\ i = Len(reqs) /\ Uploading
              /\ client'.pc = next.pc /\ client'.hash = next.hash
              /\ client'.ver = next.ver /\ client'.result = next.result
              /\ Len(reqs') = IF next.pc = "idle" THEN Len(reqs) - 1 ELSE Len(reqs)
              /\ \A j \in 1..Len(reqs) - 1 : reqs'[j] = reqs[j]
              /\ next.pc # "idle" => reqs'[Len(reqs)] = Request(client')
<1> DEFINE others == RemoveAt(reqs, i)
           n == Len(reqs)
<1>1. /\ n \in Nat /\ reqs \in Seq(Requests) /\ \A j \in 1..n : reqs[j] \in Requests
      /\ \A j \in 1..n : reqs[j].live <=> (Uploading /\ j = n)
      /\ \A j \in 1..n : reqs[j].kind = "chunk" => reqs[j].hash # <<>>
  BY RequestsTyped DEF Typed, RequestsOK, Waiting
<1>2. /\ others \in Seq(Requests) /\ Len(others) = n - 1
      /\ \A j \in 1..n - 1 : others[j] = IF j < i THEN reqs[j] ELSE reqs[j + 1]
  BY <1>1, RemoveAtIs
<1>3. \A j \in 1..n - 1 : others[j].kind = "chunk" => others[j].hash # <<>>
  BY <1>1, <1>2
<1>4. CASE ~reqs[i].live
  <2>1. client' = client /\ reqs' = others
    BY <1>4 DEF Answered
  <2> HIDE DEF others
  <2>2. ClientOK(client') /\ RequestsOK'
    BY <1>1, <1>2, <1>3, <2>1 DEF Typed, RequestsOK
  <2>3. \A j \in 1..n - 1 : others[j].live <=> (Uploading /\ j = n - 1)
    BY <1>1, <1>2, <1>4
  <2>4. Waiting'
    BY <1>1, <1>2, <1>4, <2>1, <2>3 DEF Waiting, Uploading, Typed
  <2> QED
    BY <1>2, <1>4, <2>1, <2>2, <2>4
<1>5. CASE reqs[i].live
  <2>1. i = n /\ Uploading /\ n > 0
    BY <1>1, <1>5
  <2>2. \A j \in 1..n - 1 : others[j] = reqs[j] /\ ~others[j].live
    BY <1>1, <1>2, <2>1
  <2>3. /\ ClientOK(client') /\ client'.pc = next.pc /\ client'.hash = next.hash
        /\ client'.ver = next.ver /\ client'.result = next.result
    <3>1. next \in Clients /\ client' = [next EXCEPT !.tries = 0]
      BY <1>5 DEF Answered, ClientOK
    <3>2. client' \in Clients
      BY <3>1 DEF Clients
    <3> QED
      BY <1>5, <3>1, <3>2 DEF ClientOK, Clients
  <2>4. reqs' = IF next.pc = "idle" THEN others ELSE Append(others, Request(client'))
    BY <1>5 DEF Answered
  <2> HIDE DEF others
  <2>5. CASE next.pc = "idle"
    <3>1. reqs' = others /\ client'.pc = "idle"
      BY <2>3, <2>4, <2>5
    <3>2. RequestsOK' /\ Waiting'
      BY <1>1, <1>2, <1>3, <2>2, <3>1 DEF RequestsOK, Waiting, Uploading
    <3> QED
      BY <1>2, <1>5, <2>1, <2>2, <2>3, <2>5, <3>1, <3>2
  <2>6. CASE next.pc # "idle"
    <3> DEFINE q == Request(client')
    <3>1. /\ q \in Requests /\ q.live /\ (q.kind = "chunk" => q.hash # <<>>)
      BY <2>3, <2>6, RequestIs
    <3>2. reqs' = Append(others, q)
      BY <2>4, <2>6
    <3> HIDE DEF q
    <3>3. /\ reqs' \in Seq(Requests) /\ Len(reqs') = n
          /\ \A j \in 1..n - 1 : reqs'[j] = others[j]
          /\ reqs'[n] = q
      BY <1>1, <1>2, <3>1, <3>2, AppendIs
    <3>4. RequestsOK' /\ Waiting'
      <4>1. \A j \in 1..n : j \in 1..n - 1 \/ j = n
        BY <1>1
      <4>2. RequestsOK'
        BY <1>3, <3>1, <3>3, <4>1 DEF RequestsOK
      <4>3. \A j \in 1..n - 1 : j # n
        BY <1>1
      <4>4. Waiting'
        BY <2>1, <2>2, <2>3, <2>6, <3>1, <3>3, <4>1, <4>3 DEF Waiting, Uploading
      <4> QED
        BY <4>2, <4>4
    <3> QED
      BY <1>1, <1>2, <1>5, <2>1, <2>2, <2>3, <2>6, <3>3, <3>4 DEF q
  <2> QED
    BY <2>5, <2>6
<1> QED
  BY <1>4, <1>5

-----------------------------------------------------------------------------
(* What the daemon's handlers come to. *)

\* The client's state after an answer: with what it hashed still a part of its
\* version if it was before.
Follows(next) ==
  /\ ClientOK(next) /\ next.ver = client.ver
  /\ Reading /\ next.pc # "idle" =>
       /\ Prefix(next.hash, next.ver)
       /\ next.pc = "finish" => next.hash = Content(next.ver)
Answers(i, results) ==
  \E next : Answered(i, next) /\ (reqs[i].live => Follows(next) /\ next.result \in results)

\* What a request leaves alone: the temporary files of other uploads.
OwnFile(i) ==
  /\ temps' \in [Names -> Files]
  /\ \A n \in Names : n # reqs[i].id => temps'[n] = temps[n]

\* The four ways on for a request: answered before the end or without success,
\* found to match, put in place, and answered with Ok.
Replies(i) ==
  Answers(i, {"open", "failed"}) /\ OwnFile(i) /\ UNCHANGED <<dest, source, journal, landed>>
Matches(i) ==
  /\ reqs[i].kind = "finish" /\ temps[reqs[i].id] = reqs[i].hash
  /\ reqs' = [reqs EXCEPT ![i].step = "checked"]
  /\ UNCHANGED <<client, dest, source, temps, journal, landed>>
PutsInPlace(i) ==
  /\ reqs[i].kind = "finish" /\ reqs[i].step = "checked" /\ dest' = temps[reqs[i].id]
  /\ source' = reqs[i].id
  /\ landed' = (landed \/ (client.result = "open" /\ dest' = Content(client.ver)))
  /\ reqs' = [reqs EXCEPT ![i].step = "installed"]
  /\ OwnFile(i) /\ UNCHANGED <<client, journal>>
Succeeds(i) ==
  /\ reqs[i].kind = "finish" /\ reqs[i].step = "installed"
  /\ Answers(i, {"ok"}) /\ journal' = IF reqs[i].live THEN Completed(reqs[i].id) ELSE journal
  /\ UNCHANGED <<dest, source, temps, landed>>

\* Whose file was changed after its check is remembered, and it takes a second
\* request.
Touches(i) ==
  /\ touched \subseteq touched'
  /\ \A j \in 1..Len(reqs) : j # i /\ reqs[j].step = "checked" =>
       temps'[reqs[j].id] = temps[reqs[j].id] \/ reqs[j].id \in touched'
  /\ touched' # touched => \E j \in 1..Len(reqs) : j # i

\* A client whose request is live is in a call.
LEMMA LiveIsOpen ==
  ASSUME Typed, NEW i \in 1..Len(reqs), reqs[i].live
  PROVE  Uploading /\ i = Len(reqs) /\ client.result = "open" /\ client \in Clients
BY DEF Typed, Waiting, ClientOK, Uploading

\* A call that fails is over.
LEMMA FailedFollows ==
  ASSUME Typed
  PROVE  Follows(Failed) /\ Failed.result = "failed"
<1>1. client \in Clients
  BY DEF Typed, ClientOK
<1>2. Failed \in Clients /\ Failed.result = "failed" /\ Failed.pc = "idle" /\ Failed.ver = client.ver
  BY <1>1 DEF Failed, Clients, Kinds
<1> QED
  BY <1>2 DEF Follows, ClientOK

\* One more chunk of the version extends a part of it.
LEMMA PrefixGrows ==
  ASSUME NEW v \in Versions, NEW h \in Seq(Versions), Prefix(h, v)
  PROVE  /\ Len(h) < Size[v] => Prefix(Append(h, v), v)
         /\ Len(h) >= Size[v] => h = Content(v)
<1>1. Size[v] \in Nat /\ Len(h) \in Nat
  BY ContentIs
<1>2. Append(h, v) \in Seq(Versions) /\ Len(Append(h, v)) = Len(h) + 1
      /\ \A j \in 1..Len(h) : Append(h, v)[j] = h[j]
      /\ Append(h, v)[Len(h) + 1] = v
  BY AppendIs
<1>3. \A j \in 1..Len(h) : h[j] = v
  BY DEF Prefix
<1>4. \A j \in 1..Len(h) + 1 : Append(h, v)[j] = v
  <2>1. \A j \in 1..Len(h) + 1 : j \in 1..Len(h) \/ j = Len(h) + 1
    BY <1>1
  <2> QED
    BY <1>2, <1>3, <2>1
<1>5. Append(h, v) = [j \in 1..Len(Append(h, v)) |-> v]
  <2>1. Append(h, v) \in [1..Len(h) + 1 -> Versions]
    BY <1>2, LenProperties
  <2> QED
    BY <1>2, <1>4, <2>1
<1>6. Len(h) >= Size[v] => Len(h) = Size[v]
  BY <1>1 DEF Prefix
<1> QED
  BY <1>1, <1>2, <1>5, <1>6 DEF Prefix, Content

\* The file is read on by a client with a part of it.
LEMMA ReadOnFollows ==
  ASSUME Typed, NEW c \in Clients, c.result = "open", c.ver = client.ver,
         Reading /\ Uploading => Prefix(c.hash, c.ver), Uploading
  PROVE  Follows(ReadOn(c)) /\ ReadOn(c).result = "open"
<1>1. /\ local \in Versions /\ Len(Content(local)) = Size[local] /\ Size[local] \in Nat
      /\ \A j \in 1..Size[local] : Content(local)[j] = local
      /\ c.hash \in Seq(Versions) /\ Len(c.hash) \in Nat
  BY ContentIs DEF Typed, Clients
<1>2. CASE Len(c.hash) < Size[local]
  <2> DEFINE d == [c EXCEPT !.pc = "chunk", !.hash = Append(c.hash, local)]
  <2>1. ReadOn(c) = d
    <3>1. Len(c.hash) + 1 \in 1..Size[local]
      BY <1>1, <1>2
    <3>2. Content(local)[Len(c.hash) + 1] = local
      BY <1>1, <3>1
    <3> QED
      BY <1>1, <1>2, <3>2 DEF ReadOn
  <2>2. Append(c.hash, local) \in Seq(Versions) /\ Append(c.hash, local) # <<>>
    BY <1>1
  <2>3. /\ d \in Clients /\ d.pc = "chunk" /\ d.hash = Append(c.hash, local)
        /\ d.result = "open" /\ d.ver = c.ver
    BY <2>2 DEF Clients, Kinds
  <2> HIDE DEF d
  <2>4. Reading => Prefix(d.hash, d.ver)
    BY <1>1, <1>2, <2>3, PrefixGrows DEF Reading
  <2> QED
    BY <2>1, <2>2, <2>3, <2>4 DEF Follows, ClientOK
<1>3. CASE ~(Len(c.hash) < Size[local])
  <2> DEFINE d == [c EXCEPT !.pc = "finish"]
  <2>1. ReadOn(c) = d
    BY <1>1, <1>3 DEF ReadOn
  <2>2. /\ d \in Clients /\ d.pc = "finish" /\ d.hash = c.hash
        /\ d.result = "open" /\ d.ver = c.ver
    BY DEF Clients, Kinds
  <2> HIDE DEF d
  <2>3. Reading => Prefix(d.hash, d.ver) /\ d.hash = Content(d.ver)
    BY <1>1, <1>3, <2>2, PrefixGrows DEF Reading
  <2> QED
    BY <2>1, <2>2, <2>3 DEF Follows, ClientOK
<1> QED
  BY <1>2, <1>3

\* A part of the local file, skipped since the server has it.
LEMMA SkipFollows ==
  ASSUME Typed, Uploading, NEW n \in Nat, n <= Size[local]
  PROVE  LET h == [j \in 1..n |-> local]
         IN /\ Follows(ReadOn([client EXCEPT !.hash = h]))
            /\ ReadOn([client EXCEPT !.hash = h]).result = "open"
<1> DEFINE h == [j \in 1..n |-> local]
           c == [client EXCEPT !.hash = h]
<1>1. client \in Clients /\ client.result = "open" /\ local \in Versions
  BY DEF Typed, ClientOK, Uploading
<1>2. h \in Seq(Versions) /\ Len(h) = n
  BY <1>1, SeqDef
<1>3. h = [j \in 1..Len(h) |-> local]
  BY <1>2
<1> HIDE DEF h
<1>4. c \in Clients /\ c.result = "open" /\ c.ver = client.ver /\ c.hash = h
  BY <1>1, <1>2 DEF Clients
<1>5. Reading => Prefix(c.hash, c.ver)
  BY <1>2, <1>3, <1>4 DEF Reading, Prefix
<1>6. Follows(ReadOn(c)) /\ ReadOn(c).result = "open"
  <2> HIDE DEF c
  <2> QED
    BY <1>4, <1>5, ReadOnFollows
<1> QED
  BY <1>6 DEF h

\* A request is served in one of the four ways.
LEMMA ServeIs ==
  ASSUME Typed, NEW i \in 1..Len(reqs), Serve(i)
  PROVE  /\ UNCHANGED <<local, begun, breaks, crashes>>
         /\ Replies(i) \/ Matches(i) \/ PutsInPlace(i) \/ Succeeds(i)
<1> DEFINE r == reqs[i]
<1>1. /\ r \in Requests /\ r.id \in Names /\ r.hash \in Seq(Versions)
      /\ r.kind = "chunk" => r.hash # <<>>
  BY RequestsTyped DEF Typed, RequestsOK, Requests
<1>2. temps \in [Names -> Files] /\ temps[r.id] \in Files /\ <<>> \in Files /\ NoFile \in Files
  BY <1>1 DEF Typed, Files
<1> HIDE DEF r
<1>3. CASE Start(i, r)
  <2> DEFINE next == [client EXCEPT !.pc = "offset"]
  <2>1. Answered(i, next) /\ OwnFile(i)
    BY <1>1, <1>2, <1>3 DEF Start, OwnFile, r
  <2>2. r.live => Follows(next) /\ next.result = "open"
    <3> SUFFICES ASSUME r.live PROVE Follows(next) /\ next.result = "open"
      OBVIOUS
    <3>1. Uploading /\ client.result = "open" /\ client \in Clients
      BY LiveIsOpen DEF r
    <3>2. /\ next \in Clients /\ next.result = "open" /\ next.pc = "offset"
          /\ next.ver = client.ver /\ next.hash = client.hash
      BY <3>1 DEF Clients, Kinds
    <3> HIDE DEF next
    <3> QED
      BY <3>1, <3>2 DEF Follows, ClientOK, Reading
  <2> HIDE DEF next
  <2>3. Replies(i)
    BY <1>3, <2>1, <2>2 DEF r, Replies, Answers, Start, history
  <2> QED
    BY <1>3, <2>3 DEF Start, bounds, history
<1>4. CASE Offset(i, r)
  <2> DEFINE have == IF temps[r.id] = NoFile THEN 0 ELSE Len(temps[r.id])
             skip == Min({have, Size[client.ver], Size[local]})
             next == ReadOn([client EXCEPT !.hash = [j \in 1..skip |-> local]])
  <2>1. Answered(i, next) /\ temps' = temps
    BY <1>4 DEF Offset, server
  <2>2. r.live => Follows(next) /\ next.result = "open"
    <3> SUFFICES ASSUME r.live PROVE Follows(next) /\ next.result = "open"
      OBVIOUS
    <3>1. Uploading /\ client \in Clients
      BY LiveIsOpen DEF r
    <3>2. have \in Nat /\ Size[client.ver] \in Nat /\ Size[local] \in Nat
      BY <1>2, <3>1, ContentIs DEF Files, Typed, Clients
    <3> HIDE DEF have
    <3>3. skip \in Nat /\ skip <= Size[local]
      <4>1. \E x \in {have, Size[client.ver], Size[local]} :
              \A y \in {have, Size[client.ver], Size[local]} : x <= y
        BY <3>2
      <4> QED
        BY <3>2, <4>1 DEF Min
    <3> HIDE DEF skip
    <3> QED
      BY <3>1, <3>3, SkipFollows
  <2> HIDE DEF next
  <2>3. Replies(i)
    BY <1>2, <1>4, <2>1, <2>2 DEF r, Replies, Answers, Offset, OwnFile, server, history
  <2> QED
    BY <1>4, <2>3 DEF Offset, bounds, history
<1>5. CASE Chunk(i, r)
  <2>1. CASE temps[r.id] = NoFile /\ Answered(i, Failed) /\ UNCHANGED temps
    <3>1. Replies(i)
      BY <1>2, <1>5, <2>1, FailedFollows DEF r, Replies, Answers, Chunk, OwnFile, history
    <3> QED
      BY <1>5, <3>1 DEF Chunk, bounds, history
  <2>2. CASE /\ temps[r.id] # NoFile
             /\ temps' = [temps EXCEPT ![r.id] = WriteAt(@, Len(r.hash), Last(r.hash))]
             /\ Answered(i, ReadOn(client))
    <3>1. Last(r.hash) \in Versions /\ Len(r.hash) \in Nat
      BY <1>1, <1>5, ElementOfSeq, EmptySeq DEF Last, Chunk
    <3>2. WriteAt(temps[r.id], Len(r.hash), Last(r.hash)) \in Files
      BY <1>2, <2>2, <3>1, WriteAtTyped DEF Files
    <3>3. OwnFile(i)
      BY <1>1, <1>2, <2>2, <3>2 DEF OwnFile, r
    <3>4. r.live => Follows(ReadOn(client)) /\ ReadOn(client).result = "open"
      BY LiveIsOpen, ReadOnFollows DEF r, Reading
    <3>5. Replies(i)
      BY <1>5, <2>2, <3>3, <3>4 DEF r, Replies, Answers, Chunk, history
    <3> QED
      BY <1>5, <3>5 DEF Chunk, bounds, history
  <2> QED
    BY <1>5, <2>1, <2>2 DEF Chunk
<1>6. CASE Check(i, r)
  <2>1. CASE temps[r.id] = r.hash /\ UNCHANGED <<temps, client>>
             /\ reqs' = [reqs EXCEPT ![i].step = "checked"]
    <3>1. Matches(i)
      BY <1>6, <2>1 DEF r, Matches, Check, history
    <3> QED
      BY <1>6, <3>1 DEF Check, bounds, history
  <2>2. CASE temps[r.id] # r.hash /\ temps' = [temps EXCEPT ![r.id] = NoFile] /\ Answered(i, Failed)
    <3>1. OwnFile(i)
      BY <1>1, <1>2, <2>2 DEF OwnFile, r
    <3>2. Replies(i)
      BY <1>6, <2>2, <3>1, FailedFollows DEF r, Replies, Answers, Check, history
    <3> QED
      BY <1>6, <3>2 DEF Check, bounds, history
  <2> QED
    BY <1>6, <2>1, <2>2 DEF Check
<1>7. CASE Install(i, r)
  <2>1. CASE temps[r.id] = NoFile /\ Answered(i, Failed) /\ UNCHANGED <<server, landed, source>>
    <3>1. Replies(i)
      BY <1>2, <1>7, <2>1, FailedFollows DEF r, Replies, Answers, Install, OwnFile, server
    <3> QED
      BY <1>7, <3>1 DEF Install, bounds
  <2>2. CASE temps[r.id] # NoFile /\ dest' = temps[r.id] /\ source' = r.id /\ UNCHANGED client
             /\ temps' = [temps EXCEPT ![r.id] = NoFile]
             /\ landed' = (landed \/ (client.result = "open" /\ dest' = Content(client.ver)))
             /\ reqs' = [reqs EXCEPT ![i].step = "installed"]
    <3>1. OwnFile(i)
      BY <1>1, <1>2, <2>2 DEF OwnFile, r
    <3>2. PutsInPlace(i)
      BY <1>7, <2>2, <3>1, Zenon DEF r, PutsInPlace, Install
    <3> QED
      BY <1>7, <3>2 DEF Install, bounds
  <2> QED
    BY <1>7, <2>1, <2>2 DEF Install
<1>8. CASE Finish(i, r)
  <2> DEFINE next == [client EXCEPT !.result = "ok", !.pc = "idle"]
  <2>1. Answered(i, next)
    BY <1>8 DEF Finish
  <2>2. Follows(next) /\ next.result = "ok"
    <3>1. client \in Clients
      BY DEF Typed, ClientOK
    <3>2. next \in Clients /\ next.result = "ok" /\ next.pc = "idle" /\ next.ver = client.ver
      BY <3>1 DEF Clients, Kinds
    <3> HIDE DEF next
    <3> QED
      BY <3>2 DEF Follows, ClientOK
  <2> HIDE DEF next
  <2>3. Succeeds(i)
    BY <1>8, <2>1, <2>2 DEF r, Succeeds, Answers, Finish, server, history
  <2> QED
    BY <1>8, <2>3 DEF Finish, bounds, history
<1> QED
  BY <1>3, <1>4, <1>5, <1>6, <1>7, <1>8 DEF Serve, r

\* A request that changes a temporary file is seen to.
LEMMA ServeTouches ==
  ASSUME Typed, NEW i \in 1..Len(reqs), Serve(i)
  PROVE  Touches(i)
<1>1. \A j \in 1..Len(reqs) : reqs[j].id \in Names
  BY RequestsTyped
<1>2. \A n \in Names : n # reqs[i].id => temps'[n] = temps[n]
  BY ServeIs DEF Replies, Matches, PutsInPlace, Succeeds, OwnFile
<1>3. touched' = IF /\ temps'[reqs[i].id] # temps[reqs[i].id]
                    /\ \E j \in 1..Len(reqs) : j # i /\ reqs[j].id = reqs[i].id /\ reqs[j].step = "checked"
                 THEN touched \cup {reqs[i].id} ELSE touched
  BY DEF Serve
<1> QED
  BY <1>1, <1>2, <1>3 DEF Touches

-----------------------------------------------------------------------------
(* Types. *)

\* A request that goes a step on differs in its step.
LEMMA AdvancedIs ==
  ASSUME Typed, NEW i \in 1..Len(reqs), NEW st \in {"checked", "installed"},
         reqs' = [reqs EXCEPT ![i].step = st]
  PROVE  /\ reqs' \in Seq(Requests) /\ Len(reqs') = Len(reqs)
         /\ \A j \in 1..Len(reqs) : j # i => reqs'[j] = reqs[j]
         /\ reqs'[i].live = reqs[i].live /\ reqs'[i].kind = reqs[i].kind
         /\ reqs'[i].id = reqs[i].id /\ reqs'[i].hash = reqs[i].hash /\ reqs'[i].step = st
<1> DEFINE q == [reqs[i] EXCEPT !.step = st]
<1>1. reqs \in Seq(Requests) /\ reqs[i] \in Requests
  BY RequestsTyped
<1>2. /\ q \in Requests /\ q.live = reqs[i].live /\ q.kind = reqs[i].kind
      /\ q.id = reqs[i].id /\ q.hash = reqs[i].hash /\ q.step = st
  BY <1>1 DEF Requests
<1>3. reqs' = [reqs EXCEPT ![i] = q]
  OBVIOUS
<1> HIDE DEF q
<1> QED
  BY <1>1, <1>2, <1>3, ExceptSeq

\* By a request that is found to match or put in place.
LEMMA AdvanceTyped ==
  ASSUME Typed, NEW i \in 1..Len(reqs), Matches(i) \/ PutsInPlace(i), UNCHANGED local
  PROVE  Typed'
<1>1. PICK st \in {"checked", "installed"} : reqs' = [reqs EXCEPT ![i].step = st]
  BY DEF Matches, PutsInPlace
<1>2. UNCHANGED <<client, journal>> /\ temps' \in [Names -> Files]
  BY DEF Matches, PutsInPlace, OwnFile, Typed
<1>3. /\ reqs' \in Seq(Requests) /\ Len(reqs') = Len(reqs)
      /\ \A j \in 1..Len(reqs) : /\ reqs'[j].live = reqs[j].live /\ reqs'[j].kind = reqs[j].kind
                                 /\ reqs'[j].hash = reqs[j].hash
  BY <1>1, AdvancedIs
<1>4. RequestsOK' /\ Waiting'
  BY <1>2, <1>3 DEF Typed, RequestsOK, Waiting, Uploading
<1> QED
  BY <1>2, <1>4 DEF Typed, Uploading

\* By an answer.
LEMMA AnswerTyped ==
  ASSUME Typed, NEW i \in 1..Len(reqs), Replies(i) \/ Succeeds(i), UNCHANGED local
  PROVE  Typed'
<1>1. PICK next : Answered(i, next) /\ (reqs[i].live => Follows(next))
                  /\ (Succeeds(i) /\ reqs[i].live => next.result = "ok")
                  /\ (Succeeds(i) \/ journal' = journal)
  <2>1. CASE Succeeds(i)
    BY <2>1 DEF Succeeds, Answers
  <2>2. CASE ~Succeeds(i)
    BY <2>2 DEF Replies, Answers
  <2> QED
    BY <2>1, <2>2
<1>2. /\ ClientOK(client') /\ RequestsOK' /\ Waiting'
      /\ ~reqs[i].live => client' = client
      /\ reqs[i].live => Uploading /\ client'.pc = next.pc /\ client'.ver = client.ver
                         /\ client'.result = next.result
  BY <1>1, AnsweredStep DEF Follows
<1>3. temps' \in [Names -> Files]
  BY DEF Replies, Succeeds, OwnFile, Typed
<1>4. journal' \subseteq Names /\ (Uploading' => Name[client'.ver] \in journal')
  <2>1. CASE journal' = journal
    BY <1>2, <2>1 DEF Typed, Uploading
  <2>2. CASE journal' # journal
    <3>1. Succeeds(i) /\ reqs[i].live /\ journal' \subseteq journal
      BY <1>1, <2>2 DEF Succeeds, Completed
    <3>2. client'.pc = "idle"
      BY <1>1, <1>2, <3>1 DEF ClientOK
    <3> QED
      BY <3>1, <3>2 DEF Typed, Uploading
  <2> QED
    BY <2>1, <2>2
<1> QED
  BY <1>2, <1>3, <1>4 DEF Typed

\* By an upload that begins: what the client is then, and its request.
LEMMA BeginStep ==
  ASSUME Typed, Begin
  PROVE  /\ Typed' /\ ~Uploading /\ Uploading'
         /\ client'.result = "open" /\ client'.pc = "start" /\ client'.ver = local /\ client'.hash = <<>>
         /\ Len(reqs') = Len(reqs) + 1
         /\ \A j \in 1..Len(reqs) : reqs'[j] = reqs[j]
         /\ reqs'[Len(reqs) + 1] = Request(client') /\ reqs'[Len(reqs) + 1].live
<1> DEFINE q == Request(client')
<1>1. client' = [result |-> "open", pc |-> "start", ver |-> local, hash |-> <<>>, tries |-> 0]
  BY DEF Begin
<1>2. /\ client'.result = "open" /\ client'.pc = "start" /\ client'.ver = local /\ client'.hash = <<>>
      /\ ClientOK(client') /\ ~Uploading /\ Uploading'
  BY <1>1 DEF ClientOK, Clients, Kinds, Typed, Begin, Uploading
<1>3. /\ q \in Requests /\ q.live /\ (q.kind = "chunk" => q.hash # <<>>) /\ reqs' = Append(reqs, q)
  BY <1>2, RequestIs DEF Begin
<1>4. q = Request(client')
  OBVIOUS
<1> HIDE DEF q
<1>5. /\ reqs' \in Seq(Requests) /\ Len(reqs') = Len(reqs) + 1 /\ Len(reqs) \in Nat
      /\ \A j \in 1..Len(reqs) : reqs'[j] = reqs[j] /\ j # Len(reqs) + 1
      /\ reqs'[Len(reqs) + 1] = q
  BY <1>3, RequestsTyped, AppendIs
<1>6. \A j \in 1..Len(reqs) + 1 : j \in 1..Len(reqs) \/ j = Len(reqs) + 1
  BY <1>5
<1>7. RequestsOK'
  BY <1>3, <1>5, <1>6 DEF RequestsOK, Typed
<1>8. Waiting'
  <2>1. \A j \in 1..Len(reqs) : ~reqs[j].live
    BY <1>2 DEF Typed, Waiting
  <2> QED
    BY <1>2, <1>3, <1>5, <1>6, <2>1 DEF Waiting
<1>9. journal' \subseteq Names /\ Name[local] \in journal' /\ UNCHANGED <<local, temps>>
  BY DEF Begin, Typed, Recorded, Names, server
<1> QED
  BY <1>2, <1>3, <1>4, <1>5, <1>7, <1>8, <1>9 DEF Typed

\* By a broken connection or the death of the client: the requests are given up,
\* and the client sends its own again or fails.
LEMMA BreakStep ==
  ASSUME Typed, Break \/ Crash
  PROVE  /\ Typed' /\ client.result = "open" /\ UNCHANGED <<local, dest, temps, journal, history, touched>>
         /\ client'.ver = client.ver
         /\ Len(reqs') = Len(reqs) + (IF Uploading' THEN 1 ELSE 0)
         /\ \A j \in 1..Len(reqs) :
              /\ ~reqs'[j].live /\ reqs'[j].kind = reqs[j].kind /\ reqs'[j].id = reqs[j].id
              /\ reqs'[j].hash = reqs[j].hash /\ reqs'[j].step = reqs[j].step
         /\ ~Uploading' => client'.result = "failed"
         /\ Uploading' => /\ client'.pc = client.pc /\ client'.hash = client.hash
                          /\ client'.result = client.result
                          /\ reqs'[Len(reqs) + 1] = Request(client') /\ reqs'[Len(reqs) + 1].live
<1>1. /\ Uploading /\ client \in Clients /\ ClientOK(client) /\ client.result = "open"
      /\ UNCHANGED <<local, dest, temps, journal, history, touched>>
  BY DEF Break, Crash, Typed, ClientOK, Uploading, server
<1>2. /\ Abandoned \in Seq(Requests) /\ Len(Abandoned) = Len(reqs) /\ Len(reqs) \in Nat
      /\ \A j \in 1..Len(reqs) :
           /\ ~Abandoned[j].live /\ Abandoned[j].kind = reqs[j].kind /\ Abandoned[j].id = reqs[j].id
           /\ Abandoned[j].hash = reqs[j].hash /\ Abandoned[j].step = reqs[j].step
  BY AbandonedIs, RequestsTyped
<1>3. \A j \in 1..Len(reqs) : Abandoned[j].kind = "chunk" => Abandoned[j].hash # <<>>
  BY <1>2 DEF Typed, RequestsOK
<1>4. CASE client' = Failed /\ reqs' = Abandoned
  <2>1. ClientOK(client') /\ client'.pc = "idle" /\ client'.result = "failed" /\ client'.ver = client.ver
    BY <1>4, FailedFollows DEF Follows, ClientOK
  <2>2. RequestsOK' /\ Waiting' /\ ~Uploading'
    BY <1>2, <1>3, <1>4, <2>1 DEF RequestsOK, Waiting, Uploading
  <2> QED
    BY <1>1, <1>2, <1>4, <2>1, <2>2 DEF Typed
<1>5. CASE client' = [client EXCEPT !.tries = @ + 1] /\ reqs' = Append(Abandoned, Request(client'))
  <2>1. /\ client' \in Clients /\ client'.pc = client.pc /\ client'.hash = client.hash
        /\ client'.ver = client.ver /\ client'.result = client.result
    BY <1>1, <1>5 DEF Clients
  <2>2. ClientOK(client') /\ Uploading'
    BY <1>1, <2>1 DEF ClientOK, Uploading
  <2> DEFINE q == Request(client')
  <2>3. q \in Requests /\ q.live /\ (q.kind = "chunk" => q.hash # <<>>)
    BY <2>2, RequestIs DEF Uploading
  <2>4. q = Request(client') /\ reqs' = Append(Abandoned, q)
    BY <1>5
  <2> HIDE DEF q
  <2>5. /\ reqs' \in Seq(Requests) /\ Len(reqs') = Len(reqs) + 1
        /\ \A j \in 1..Len(reqs) : reqs'[j] = Abandoned[j] /\ j # Len(reqs) + 1
        /\ reqs'[Len(reqs) + 1] = q
    BY <1>2, <2>3, <2>4, AppendIs
  <2>6. \A j \in 1..Len(reqs) + 1 : j \in 1..Len(reqs) \/ j = Len(reqs) + 1
    BY <1>2
  <2>7. RequestsOK'
    BY <1>3, <2>3, <2>5, <2>6 DEF RequestsOK
  <2>8. Waiting'
    BY <1>2, <2>2, <2>3, <2>5, <2>6 DEF Waiting
  <2>9. Typed'
    BY <1>1, <2>1, <2>2, <2>7, <2>8 DEF Typed
  <2> QED
    BY <1>1, <1>2, <2>1, <2>2, <2>3, <2>4, <2>5, <2>9
<1> QED
  BY <1>4, <1>5 DEF Break, Crash

\* By a request that gets lost.
LEMMA LoseStep ==
  ASSUME Typed, NEW i \in 1..Len(reqs), LoseRequest(i)
  PROVE  /\ Typed' /\ Len(reqs') = Len(reqs) - 1
         /\ \A j \in 1..Len(reqs) - 1 : reqs'[j] = IF j < i THEN reqs[j] ELSE reqs[j + 1]
<1> DEFINE n == Len(reqs)
<1>1. /\ n \in Nat /\ reqs \in Seq(Requests) /\ ~reqs[i].live
      /\ \A j \in 1..n : reqs[j].live <=> (Uploading /\ j = n)
      /\ \A j \in 1..n : reqs[j].kind = "chunk" => reqs[j].hash # <<>>
      /\ UNCHANGED <<local, temps, journal, client>>
  BY RequestsTyped DEF Typed, RequestsOK, Waiting, LoseRequest, server
<1>2. /\ reqs' \in Seq(Requests) /\ Len(reqs') = n - 1
      /\ \A j \in 1..n - 1 : reqs'[j] = IF j < i THEN reqs[j] ELSE reqs[j + 1]
  BY <1>1, RemoveAtIs DEF LoseRequest
<1>3. RequestsOK'
  BY <1>1, <1>2 DEF RequestsOK
<1>4. \A j \in 1..n - 1 : reqs'[j].live <=> (Uploading /\ j = n - 1)
  BY <1>1, <1>2
<1>5. Waiting'
  BY <1>1, <1>2, <1>4 DEF Waiting, Uploading, Typed
<1> QED
  BY <1>1, <1>2, <1>3, <1>5 DEF Typed, Uploading

\* The types hold at first.
LEMMA InitTyped == Init => Typed
<1> SUFFICES ASSUME Init PROVE Typed
  OBVIOUS
<1>1. client = [result |-> "none", pc |-> "idle", ver |-> local, hash |-> <<>>, tries |-> 0] /\ local \in Versions
  BY DEF Init
<1>2. ClientOK(client) /\ ~Uploading
  BY <1>1 DEF ClientOK, Clients, Kinds, Uploading
<1>3. RequestsOK /\ Waiting
  BY <1>2, EmptySeq DEF Init, RequestsOK, Waiting
<1> QED
  BY <1>2, <1>3 DEF Init, Typed, Files

\* Every step keeps the types.
LEMMA NextTyped == Typed /\ [Next]_vars => Typed'
<1> SUFFICES ASSUME Typed, [Next]_vars PROVE Typed'
  OBVIOUS
<1>1. CASE Begin \/ Break \/ Crash
  BY <1>1, BeginStep, BreakStep
<1>2. CASE Edit
  BY <1>2 DEF Edit, Typed, RequestsOK, Waiting, Uploading, server
<1>3. ASSUME NEW i \in 1..Len(reqs), Serve(i) PROVE Typed'
  BY <1>3, ServeIs, AdvanceTyped, AnswerTyped
<1>4. ASSUME NEW i \in 1..Len(reqs), LoseRequest(i) PROVE Typed'
  BY <1>4, LoseStep
<1>5. CASE UNCHANGED vars
  BY <1>5 DEF vars, Typed, RequestsOK, Waiting, Uploading, server
<1> QED
  BY <1>1, <1>2, <1>3, <1>4, <1>5 DEF Next

\* The client waits for one answer at a time, to the request it sent last, and
\* an upload under way is in the journal, whatever the daemon does with late
\* requests and whether or not the file is edited meanwhile.
THEOREM UploadTypes == Spec => []TypeOK
<1>1. Typed => TypeOK
  <2> SUFFICES ASSUME Typed PROVE TypeOK
    OBVIOUS
  <2>1. \A n \in Names : temps[n] = NoFile \/ temps[n] \in Seq(Versions \cup {Hole})
    BY DEF Typed, Files, Chunks
  <2>2. client.pc \in {"idle", "start", "offset", "chunk", "finish"} /\ (Uploading <=> client.result = "open")
    BY DEF Typed, ClientOK, Clients, Kinds, Uploading
  <2>3. Uploading => reqs # <<>>
    BY EmptySeq DEF Typed, Waiting
  <2> QED
    BY <2>1, <2>2, <2>3 DEF TypeOK, Typed, Waiting
<1> QED
  BY <1>1, InitTyped, NextTyped, PTL DEF Spec

-----------------------------------------------------------------------------
(* The invariant. *)

\* The list after an answer: other requests, and the next one of the client that
\* waited for it.
LEMMA AnswerLeaves ==
  ASSUME Typed, NEW i \in 1..Len(reqs), NEW next, Answered(i, next), reqs[i].live => Follows(next)
  PROVE  /\ ~reqs[i].live => client' = client
         /\ reqs[i].live =>
              /\ Uploading /\ client.result = "open" /\ ClientOK(client')
              /\ client'.ver = client.ver /\ client'.pc = next.pc /\ client'.hash = next.hash
              /\ client'.result = next.result
         /\ \A j \in 1..Len(reqs') :
              \/ \E k \in 1..Len(reqs) :
                   k # i /\ reqs'[j] = reqs[k] /\ (reqs[k].live => ~reqs[i].live)
              \/ /\ reqs[i].live /\ Uploading'
                 /\ reqs'[j].live /\ reqs'[j].kind = client'.pc /\ reqs'[j].hash = client'.hash
                 /\ reqs'[j].step = "new" /\ reqs'[j].id = Name[client'.ver]
<1> DEFINE n == Len(reqs)
<1>1. /\ n \in Nat /\ i \in 1..n
      /\ \A j \in 1..n : reqs[j].live <=> (Uploading /\ j = n)
  BY RequestsTyped DEF Typed, Waiting
<1>2. CASE ~reqs[i].live
  <2>1. /\ client' = client /\ Len(reqs') = n - 1
        /\ \A j \in 1..n - 1 : reqs'[j] = IF j < i THEN reqs[j] ELSE reqs[j + 1]
    BY <1>2, AnsweredStep
  <2>2. ASSUME NEW j \in 1..Len(reqs')
        PROVE  \E k \in 1..n : k # i /\ reqs'[j] = reqs[k]
    <3>1. j \in 1..n - 1 /\ j \in 1..n /\ j + 1 \in 1..n
      BY <1>1, <2>1
    <3> QED
      BY <1>1, <2>1, <3>1
  <2> QED
    BY <1>2, <2>1, <2>2
<1>3. CASE reqs[i].live
  <2>1. ClientOK(next) /\ next.ver = client.ver
    BY <1>3 DEF Follows
  <2>2. /\ i = n /\ Uploading /\ ClientOK(client')
        /\ client'.pc = next.pc /\ client'.hash = next.hash
        /\ client'.ver = next.ver /\ client'.result = next.result
        /\ Len(reqs') = IF next.pc = "idle" THEN n - 1 ELSE n
        /\ \A j \in 1..n - 1 : reqs'[j] = reqs[j]
        /\ next.pc # "idle" => reqs'[n] = Request(client')
    BY <1>3, <2>1, AnsweredStep
  <2>3. ASSUME NEW j \in 1..Len(reqs')
        PROVE  \/ \E k \in 1..n : k # i /\ reqs'[j] = reqs[k] /\ ~reqs[k].live
               \/ /\ Uploading'
                  /\ reqs'[j].live /\ reqs'[j].kind = client'.pc /\ reqs'[j].hash = client'.hash
                  /\ reqs'[j].step = "new" /\ reqs'[j].id = Name[client'.ver]
    <3>1. CASE j \in 1..n - 1
      <4>1. j \in 1..n /\ j # n /\ reqs'[j] = reqs[j]
        BY <1>1, <2>2, <3>1
      <4> QED
        BY <1>1, <2>2, <4>1
    <3>2. CASE j \notin 1..n - 1
      <4>1. j = n /\ client'.pc # "idle" /\ reqs'[j] = Request(client')
        BY <1>1, <2>2, <3>2
      <4> QED
        BY <2>2, <4>1, RequestIs DEF Uploading
    <3> QED
      BY <3>1, <3>2
  <2>4. client.result = "open"
    BY <1>3, LiveIsOpen
  <2> QED
    BY <1>3, <2>1, <2>2, <2>3, <2>4
<1> QED
  BY <1>2, <1>3

\* By an answer.
LEMMA AnswerKeeps ==
  ASSUME IInv, NEW i \in 1..Len(reqs), Answers(i, {"open", "failed", "ok"}), Touches(i),
         UNCHANGED <<local, begun, landed, breaks, crashes>>
  PROVE  /\ Reading' /\ Hashes' /\ Owned' /\ Checked' /\ Installed' /\ Late'
         /\ ~reqs[i].live => client' = client
         /\ reqs[i].live => client.result = "open" /\ client'.ver = client.ver
<1>1. PICK next : Answered(i, next) /\ (reqs[i].live => Follows(next))
  BY DEF Answers
<1>2. Typed
  BY DEF IInv
<1>3. /\ ~reqs[i].live => client' = client
      /\ reqs[i].live =>
           /\ Uploading /\ client.result = "open" /\ ClientOK(client')
           /\ client'.ver = client.ver /\ client'.pc = next.pc /\ client'.hash = next.hash
  BY <1>1, <1>2, AnswerLeaves
<1>4. ASSUME NEW j \in 1..Len(reqs')
      PROVE  \/ \E k \in 1..Len(reqs) :
                  k # i /\ reqs'[j] = reqs[k] /\ (reqs[k].live => ~reqs[i].live)
             \/ /\ reqs[i].live /\ Uploading'
                /\ reqs'[j].live /\ reqs'[j].kind = client'.pc /\ reqs'[j].hash = client'.hash
                /\ reqs'[j].step = "new" /\ reqs'[j].id = Name[client'.ver]
  BY <1>1, <1>2, AnswerLeaves
<1>5. Reading'
  <2>1. CASE ~reqs[i].live
    BY <1>3, <2>1 DEF IInv, Reading, Uploading
  <2>2. CASE reqs[i].live
    BY <1>1, <1>3, <2>2 DEF Reading, IInv, Follows, Uploading
  <2> QED
    BY <2>1, <2>2
<1>6. Hashes'
  BY <1>3, <1>4, <1>5 DEF IInv, Hashes, Reading
<1>7. Owned'
  BY <1>3, <1>4 DEF IInv, Owned
<1>8. Checked'
  <2> SUFFICES ASSUME NEW j \in 1..Len(reqs'), reqs'[j].step = "checked"
               PROVE  temps'[reqs'[j].id] = reqs'[j].hash \/ reqs'[j].id \in touched'
    BY DEF Checked
  <2>1. PICK k \in 1..Len(reqs) : k # i /\ reqs'[j] = reqs[k]
    BY <1>4
  <2>2. temps[reqs[k].id] = reqs[k].hash \/ reqs[k].id \in touched
    BY <2>1 DEF IInv, Checked
  <2> QED
    BY <2>1, <2>2 DEF Touches
<1>9. Installed'
  BY <1>4 DEF IInv, Installed, Touches
<1>10. Late'
  BY <1>4 DEF IInv, Late
<1> QED
  BY <1>3, <1>5, <1>6, <1>7, <1>8, <1>9, <1>10

\* By a request found to match or put in place.
LEMMA AdvanceKeeps ==
  ASSUME IInv, NEW i \in 1..Len(reqs), Matches(i) \/ PutsInPlace(i), Touches(i),
         UNCHANGED <<local, begun, breaks, crashes>>
  PROVE  Reading' /\ Hashes' /\ Owned' /\ Checked' /\ Installed' /\ Late'
<1>1. Typed /\ Len(reqs) \in Nat /\ client' = client
  BY RequestsTyped DEF IInv, Matches, PutsInPlace
<1>2. PICK st \in {"checked", "installed"} :
        /\ reqs' = [reqs EXCEPT ![i].step = st]
        /\ st = "checked" <=> Matches(i)
  <2>1. CASE Matches(i)
    BY <2>1 DEF Matches
  <2>2. CASE ~Matches(i)
    BY <2>2 DEF PutsInPlace
  <2> QED
    BY <2>1, <2>2
<1>3. /\ Len(reqs') = Len(reqs)
      /\ \A j \in 1..Len(reqs) : j # i => reqs'[j] = reqs[j]
      /\ reqs'[i].live = reqs[i].live /\ reqs'[i].kind = reqs[i].kind
      /\ reqs'[i].id = reqs[i].id /\ reqs'[i].hash = reqs[i].hash /\ reqs'[i].step = st
  BY <1>1, <1>2, AdvancedIs
<1>4. Reading'
  BY <1>1 DEF IInv, Reading, Uploading
<1>5. Hashes'
  BY <1>1, <1>3 DEF IInv, Hashes
<1>6. Owned'
  BY <1>1, <1>3 DEF IInv, Owned
<1>7. Checked'
  <2>1. st = "checked" => temps[reqs[i].id] = reqs[i].hash /\ temps' = temps
    BY <1>2 DEF Matches
  <2>2. ASSUME NEW j \in 1..Len(reqs), j # i, reqs[j].step = "checked"
        PROVE  temps'[reqs[j].id] = reqs[j].hash \/ reqs[j].id \in touched'
    <3>1. temps[reqs[j].id] = reqs[j].hash \/ reqs[j].id \in touched
      BY <2>2 DEF IInv, Checked
    <3> QED
      BY <2>2, <3>1 DEF Touches
  <2>3. ASSUME NEW j \in 1..Len(reqs), reqs'[j].step = "checked"
        PROVE  temps'[reqs'[j].id] = reqs'[j].hash \/ reqs'[j].id \in touched'
    <3>1. CASE j = i
      BY <1>3, <2>1, <2>3, <3>1
    <3>2. CASE j # i
      BY <1>3, <2>2, <2>3, <3>2
    <3> QED
      BY <3>1, <3>2
  <2> QED
    BY <1>3, <2>3 DEF Checked
<1>8. Installed'
  <2>1. ASSUME st = "installed", reqs[i].live PROVE landed' \/ reqs[i].id \in touched'
    <3>1. PutsInPlace(i)
      BY <1>2, <2>1
    <3>2. temps[reqs[i].id] = reqs[i].hash \/ reqs[i].id \in touched
      BY <3>1 DEF PutsInPlace, IInv, Checked
    <3>3. reqs[i].hash = Content(client.ver) /\ client.result = "open"
      BY <1>1, <2>1, <3>1, LiveIsOpen DEF PutsInPlace, IInv, Hashes
    <3> QED
      BY <3>1, <3>2, <3>3 DEF PutsInPlace, Touches
  <2>2. landed => landed'
    BY DEF Matches, PutsInPlace
  <2>3. ASSUME NEW j \in 1..Len(reqs), reqs'[j].live, reqs'[j].step = "installed"
        PROVE  landed' \/ reqs'[j].id \in touched'
    <3>1. CASE j = i
      BY <1>3, <2>1, <2>3, <3>1
    <3>2. CASE j # i
      <4>1. landed \/ reqs[j].id \in touched
        BY <1>3, <2>3, <3>2 DEF IInv, Installed
      <4> QED
        BY <1>3, <2>2, <2>3, <3>2, <4>1 DEF Touches
    <3> QED
      BY <3>1, <3>2
  <2> QED
    BY <1>3, <2>3 DEF Installed
<1>9. Late'
  BY <1>3 DEF IInv, Late
<1> QED
  BY <1>4, <1>5, <1>6, <1>7, <1>8, <1>9

\* By an upload that begins, a connection that breaks or a client that dies.
LEMMA SendKeeps ==
  ASSUME IInv, Begin \/ Break \/ Crash
  PROVE  IInv'
<1>1. Typed /\ Len(reqs) \in Nat
  BY RequestsTyped DEF IInv
<1>2. \A j \in 1..Len(reqs) + 1 : j \in 1..Len(reqs) \/ j = Len(reqs) + 1
  BY <1>1
<1>3. CASE Begin
  <2>1. /\ Typed' /\ ~Uploading /\ Uploading'
        /\ client'.pc = "start" /\ client'.ver = local /\ client'.hash = <<>>
        /\ Len(reqs') = Len(reqs) + 1 /\ \A j \in 1..Len(reqs) : reqs'[j] = reqs[j]
        /\ reqs'[Len(reqs) + 1] = Request(client') /\ reqs'[Len(reqs) + 1].live
    BY <1>1, <1>3, BeginStep
  <2>2. /\ UNCHANGED <<local, temps, touched, breaks, crashes>>
        /\ begun' = begun \cup {Content(local)} /\ local \in Versions
    BY <1>1, <1>3 DEF Begin, server, bounds, Typed
  <2>3. Prefix(<<>>, local)
    BY <2>2, ContentIs, EmptySeq DEF Prefix
  <2>4. Reading'
    BY <2>1, <2>2, <2>3 DEF IInv, Reading, Uploading, Prefix
  <2>5. /\ reqs'[Len(reqs) + 1].kind = "start" /\ reqs'[Len(reqs) + 1].step = "new"
        /\ reqs'[Len(reqs) + 1].id = Name[client'.ver]
    BY <2>1 DEF Request
  <2>6. \A j \in 1..Len(reqs) : ~reqs[j].live
    BY <1>1, <2>1 DEF Typed, Waiting
  <2>7. Hashes'
    BY <1>2, <2>1, <2>2, <2>5, <2>6 DEF IInv, Hashes
  <2>8. Owned'
    BY <1>2, <2>1, <2>5, <2>6 DEF Owned
  <2>9. Checked' /\ Installed'
    BY <1>2, <2>1, <2>2, <2>5, <2>6 DEF IInv, Checked, Installed
  <2>10. Late'
    BY <1>2, <2>1, <2>2 DEF IInv, Late
  <2> QED
    BY <2>1, <2>4, <2>7, <2>8, <2>9, <2>10 DEF IInv
<1>4. CASE Break \/ Crash
  <2>1. /\ Typed' /\ client.result = "open" /\ UNCHANGED <<local, dest, temps, journal, history, touched>>
        /\ client'.ver = client.ver
        /\ Len(reqs') = Len(reqs) + (IF Uploading' THEN 1 ELSE 0)
        /\ \A j \in 1..Len(reqs) :
             /\ ~reqs'[j].live /\ reqs'[j].kind = reqs[j].kind /\ reqs'[j].id = reqs[j].id
             /\ reqs'[j].hash = reqs[j].hash /\ reqs'[j].step = reqs[j].step
        /\ Uploading' => /\ client'.pc = client.pc /\ client'.hash = client.hash
                         /\ reqs'[Len(reqs) + 1] = Request(client')
    BY <1>1, <1>4, BreakStep
  <2>2. Reading'
    BY <1>1, <2>1 DEF IInv, Reading, Uploading, history, Typed, ClientOK
  <2>3. ASSUME NEW j \in 1..Len(reqs'), j \notin 1..Len(reqs)
        PROVE  /\ reqs'[j].step = "new" /\ reqs'[j].id = Name[client'.ver]
               /\ reqs'[j].kind = "finish" =>
                    reqs'[j].hash = Content(client'.ver) /\ reqs'[j].hash \in begun'
    <3>1. Uploading' /\ j = Len(reqs) + 1 /\ reqs'[j] = Request(client')
      BY <1>1, <2>1, <2>3
    <3>2. /\ reqs'[j].step = "new" /\ reqs'[j].kind = client'.pc /\ reqs'[j].hash = client'.hash
          /\ reqs'[j].id = Name[client'.ver]
      BY <3>1 DEF Request
    <3> QED
      BY <2>2, <3>1, <3>2 DEF Reading
  <2>4. Hashes'
    BY <2>1, <2>3 DEF IInv, Hashes, history
  <2>5. Owned'
    BY <2>1, <2>3 DEF Owned
  <2>6. Checked' /\ Installed'
    BY <2>1, <2>3 DEF IInv, Checked, Installed
  <2>7. Late'
    BY <1>4 DEF IInv, Late, Break, Crash
  <2> QED
    BY <2>1, <2>2, <2>4, <2>5, <2>6, <2>7 DEF IInv
<1> QED
  BY <1>3, <1>4

\* By a request that gets lost.
LEMMA LoseKeeps ==
  ASSUME IInv, NEW i \in 1..Len(reqs), LoseRequest(i)
  PROVE  IInv'
<1>1. /\ Typed /\ Typed' /\ Len(reqs) \in Nat /\ Len(reqs') = Len(reqs) - 1
      /\ \A j \in 1..Len(reqs) - 1 : reqs'[j] = IF j < i THEN reqs[j] ELSE reqs[j + 1]
      /\ UNCHANGED <<local, temps, client, begun, landed, touched, breaks, crashes>>
  BY LoseStep, RequestsTyped DEF IInv, LoseRequest, server, history, bounds
<1>2. ASSUME NEW j \in 1..Len(reqs')
      PROVE  \E k \in 1..Len(reqs) : reqs'[j] = reqs[k]
  <2>1. j \in 1..Len(reqs) - 1 /\ j \in 1..Len(reqs) /\ j + 1 \in 1..Len(reqs)
    BY <1>1
  <2> QED
    BY <1>1, <2>1
<1>3. Reading'
  BY <1>1 DEF IInv, Reading, Uploading
<1>4. Hashes' /\ Owned'
  BY <1>1, <1>2 DEF IInv, Hashes, Owned
<1>5. Checked' /\ Installed'
  BY <1>1, <1>2 DEF IInv, Checked, Installed
<1>6. Late'
  BY <1>1, <1>2 DEF IInv, Late
<1> QED
  BY <1>1, <1>3, <1>4, <1>5, <1>6 DEF IInv

\* The invariant holds at first.
LEMMA InitIInv == Init => IInv
<1> SUFFICES ASSUME Init PROVE IInv
  OBVIOUS
<1>1. Typed /\ Len(reqs) = 0 /\ ~Uploading /\ begun = {} /\ breaks = 0 /\ crashes = 0
  BY InitTyped, EmptySeq DEF Init, Uploading
<1>2. \A i \in 1..Len(reqs) : FALSE
  BY <1>1
<1> QED
  BY <1>1, <1>2 DEF IInv, Reading, Hashes, Owned, Checked, Installed, Late

-----------------------------------------------------------------------------
(* The refinement. *)

Values == {Content(v) : v \in Versions} \cup {NoFile}

\* Whoever changed a file behind another request was given up, or the other was.
LEMMA TouchIsLate ==
  ASSUME IInv, NEW i \in 1..Len(reqs), Touches(i), UNCHANGED <<breaks, crashes>>
  PROVE  Put!GiveUp /\ Put!Touch
<1>1. touched' # touched => breaks + crashes > 0
  <2> SUFFICES ASSUME touched' # touched PROVE breaks + crashes > 0
    OBVIOUS
  <2>1. PICK j \in 1..Len(reqs) : j # i
    BY DEF Touches
  <2>2. ~reqs[i].live \/ ~reqs[j].live
    BY <2>1 DEF IInv, Typed, Waiting
  <2> QED
    BY <2>2 DEF IInv, Late
<1> QED
  BY <1>1 DEF Touches, Put!GiveUp, Put!Touch

\* Every step keeps the invariant, and is one of AtomicPut or invisible there.
LEMMA NextRefines ==
  ASSUME QuietFile, IInv, [Next]_vars
  PROVE  IInv' /\ [Put!Next]_(Put!vars)
<1>1. Typed /\ breaks \in Nat /\ crashes \in Nat
  BY DEF IInv, Late
<1>2. CASE Begin
  <2>1. /\ IInv' /\ client'.result = "open" /\ client'.ver = local /\ client.result # "open"
    BY <1>1, <1>2, SendKeeps, BeginStep DEF Typed, ClientOK, Uploading
  <2>2. Content(local) \in Values
    BY <1>1 DEF Values, Typed
  <2>3. Put!Begin(Content(local))
    BY <1>2, <2>1 DEF Begin, server, Put!Begin, Put!file
  <2>4. Put!GiveUp /\ Put!Touch
    BY <1>2 DEF Begin, bounds, Put!GiveUp, Put!Touch
  <2> QED
    BY <2>1, <2>2, <2>3, <2>4 DEF Put!Next, Values
<1>3. CASE Break \/ Crash
  <2>1. /\ IInv' /\ client.result = "open" /\ UNCHANGED <<dest, begun, landed, source, touched>>
        /\ client'.ver = client.ver
        /\ client'.result = "failed" \/ client'.result = "open"
    BY <1>1, <1>3, SendKeeps, BreakStep DEF history
  <2>2. Put!GiveUp /\ Put!Touch
    BY <1>1, <1>3, <2>1 DEF Break, Crash, Put!GiveUp, Put!Touch
  <2>3. CASE client'.result = "failed"
    <3>1. Put!Return("failed")
      BY <2>1, <2>3 DEF Put!Return, Put!file
    <3> QED
      BY <2>1, <2>2, <3>1 DEF Put!Next
  <2>4. CASE client'.result = "open"
    <3>1. UNCHANGED <<Put!file, Put!upload, landed>>
      BY <2>1, <2>4 DEF Put!file, Put!upload
    <3> QED
      BY <2>1, <2>2, <3>1 DEF Put!Next
  <2> QED
    BY <2>1, <2>3, <2>4
<1>4. CASE Edit
  <2>1. /\ ~Uploading /\ UNCHANGED <<dest, temps, client, reqs, begun, landed, source, touched, breaks, crashes>>
        /\ Typed'
    BY <1>1, <1>4, NextTyped DEF Edit, server, history, Next
  <2>2. IInv'
    BY <2>1 DEF IInv, Reading, Hashes, Owned, Checked, Installed, Late, Uploading
  <2> QED
    BY <2>1, <2>2 DEF Put!vars, Put!file, Put!upload
<1>5. ASSUME NEW i \in 1..Len(reqs), Serve(i)
      PROVE  IInv' /\ [Put!Next]_(Put!vars)
  <2>1. /\ UNCHANGED <<local, begun, breaks, crashes>> /\ Typed' /\ Touches(i)
        /\ Put!GiveUp /\ Put!Touch
    BY <1>1, <1>5, ServeIs, ServeTouches, AdvanceTyped, AnswerTyped, TouchIsLate
  <2>2. CASE Replies(i)
    <3>1. Answers(i, {"open", "failed", "ok"}) /\ UNCHANGED <<dest, source, landed>>
      BY <2>2 DEF Replies, Answers
    <3>2. /\ IInv'
          /\ ~reqs[i].live => client' = client
          /\ reqs[i].live => client.result = "open" /\ client'.ver = client.ver
      BY <2>1, <3>1, AnswerKeeps DEF IInv
    <3>3. reqs[i].live => client'.result \in {"open", "failed"}
      BY <1>1, <2>2, AnsweredStep DEF Replies, Answers, Follows
    <3>4. CASE reqs[i].live /\ client'.result = "failed"
      <4>1. Put!Return("failed")
        BY <2>1, <3>1, <3>2, <3>4 DEF Put!Return, Put!file
      <4> QED
        BY <2>1, <3>2, <4>1 DEF Put!Next
    <3>5. CASE ~(reqs[i].live /\ client'.result = "failed")
      <4>1. UNCHANGED <<Put!file, Put!upload, landed>>
        BY <2>1, <3>1, <3>2, <3>3, <3>5 DEF Put!file, Put!upload
      <4> QED
        BY <2>1, <3>2, <4>1 DEF Put!Next
    <3> QED
      BY <3>4, <3>5
  <2>3. CASE Matches(i)
    <3>1. IInv' /\ UNCHANGED <<dest, source, client, landed>>
      BY <2>1, <2>3, AdvanceKeeps DEF IInv, Matches
    <3>2. UNCHANGED <<Put!file, Put!upload, landed>>
      BY <2>1, <3>1 DEF Put!file, Put!upload
    <3> QED
      BY <2>1, <3>1, <3>2 DEF Put!Next
  <2>4. CASE PutsInPlace(i)
    <3>1. IInv'
      BY <2>1, <2>4, AdvanceKeeps DEF IInv
    <3>2. /\ client' = client /\ source' = reqs[i].id
          /\ landed' = (landed \/ (client.result = "open" /\ dest' = Content(client.ver)))
      BY <2>4 DEF PutsInPlace
    <3>3. CASE reqs[i].id \in touched
      <4>1. Put!Spoil
        BY <2>1, <3>2, <3>3 DEF Put!Spoil, Put!upload
      <4> QED
        BY <2>1, <3>1, <4>1 DEF Put!Next
    <3>4. CASE reqs[i].id \notin touched
      <4>1. dest' \in begun /\ dest' \in Values
        BY <2>4, <3>4 DEF PutsInPlace, IInv, Checked, Hashes, Reading, Values
      <4>2. client.result = "open" => client.result # "none"
        OBVIOUS
      <4>3. Put!Land(dest')
        BY <2>1, <3>2, <4>1, <4>2 DEF Put!Land, Put!upload
      <4> QED
        BY <2>1, <3>1, <4>1, <4>3 DEF Put!Next, Values
    <3> QED
      BY <3>3, <3>4
  <2>5. CASE Succeeds(i)
    <3>1. Answers(i, {"open", "failed", "ok"}) /\ UNCHANGED <<dest, source, landed>>
      BY <2>5 DEF Succeeds, Answers
    <3>2. /\ IInv'
          /\ ~reqs[i].live => client' = client
          /\ reqs[i].live => client.result = "open" /\ client'.ver = client.ver
      BY <2>1, <3>1, AnswerKeeps DEF IInv
    <3>3. reqs[i].live => client'.result = "ok" /\ (landed \/ Name[client.ver] \in touched)
      <4>1. reqs[i].live => client'.result = "ok"
        BY <1>1, <2>5, AnsweredStep DEF Succeeds, Answers, Follows
      <4> QED
        BY <2>5, <4>1 DEF Succeeds, IInv, Installed, Owned
    <3>4. CASE reqs[i].live
      <4>1. Put!Return("ok")
        BY <2>1, <3>1, <3>2, <3>3, <3>4 DEF Put!Return, Put!file
      <4> QED
        BY <2>1, <3>2, <4>1 DEF Put!Next
    <3>5. CASE ~reqs[i].live
      <4>1. UNCHANGED <<Put!file, Put!upload, landed>>
        BY <2>1, <3>1, <3>2, <3>5 DEF Put!file, Put!upload
      <4> QED
        BY <2>1, <3>2, <4>1 DEF Put!Next
    <3> QED
      BY <3>4, <3>5
  <2> QED
    BY <1>1, <1>5, <2>2, <2>3, <2>4, <2>5, ServeIs
<1>6. ASSUME NEW i \in 1..Len(reqs), LoseRequest(i)
      PROVE  IInv' /\ UNCHANGED Put!vars
  BY <1>6, LoseKeeps DEF LoseRequest, server, history, bounds, Put!vars, Put!file, Put!upload
<1>7. CASE UNCHANGED vars
  <2>1. UNCHANGED <<local, dest, temps, client, reqs, begun, landed, source, touched, breaks, crashes>> /\ Typed'
    BY <1>1, <1>7, NextTyped DEF vars, server, history, bounds
  <2>2. IInv'
    BY <2>1 DEF IInv, Reading, Hashes, Owned, Checked, Installed, Late, Uploading
  <2> QED
    BY <2>1, <2>2 DEF Put!vars, Put!file, Put!upload
<1> QED
  BY <1>2, <1>3, <1>4, <1>5, <1>6, <1>7 DEF Next

\* As long as the file is left alone while it is uploaded: whatever is lost,
\* repeated, given up or left behind, and whenever late requests are served, the
\* destination is a whole version that an upload was started with, and Ok means
\* that the upload's own version was put there since it was called, unless a
\* request that came late changed the temporary file of that very upload between
\* its check and its rename.
THEOREM UploadImplementsAtomicPut ==
  ASSUME QuietFile PROVE Spec => ImplementsAtomicPut
<1>1. Init => Put!Init
  BY DEF Init, Put!Init
<1>2. IInv /\ [Next]_vars => IInv' /\ [Put!Next]_(Put!vars)
  BY NextRefines
<1> QED
  BY <1>1, <1>2, InitIInv, PTL DEF Spec, ImplementsAtomicPut, Put!Spec
=============================================================================
