--------------------------- MODULE HttpGatewayProofs ---------------------------
(***************************************************************************)
(* What the files of the gateway may be, for any number of handlers,       *)
(* uploads and faults.                                                    *)
(***************************************************************************)
EXTENDS HttpGateway, TLAPS

-----------------------------------------------------------------------------
(***************************************************************************)
(* The inductive invariant                                                 *)
(***************************************************************************)

(* What a handler that is about to write has in hand: an upload of what    *)
(* may be uploaded, or what came of an allowed host's file.                *)
ReqOK(k, l, r) ==
  l \in {"open", "write"} =>
    IF r.put THEN k = Profile /\ \E v \in Uploads : r.body = <<v>> \/ r.body = Whole(v)
    ELSE \E n \in Hosts, end \in 0 .. Size(k) :
           end <= MaxUpstream /\ r.body = Beginning(Original(n, k), end)
BodyInv == \A h \in Handler : ReqOK(key, st[h], req[h])

(* Only a GET asks a host, and only an allowed one.                        *)
AsksOK(l, r) == /\ l \in {"lookup", "check", "fetch"} => ~ r.put
                /\ l \in {"check", "fetch"} => r.host \in Hosts
FetcherInv == \A h \in Handler : AsksOK(st[h], req[h])

(* Two handlers that write at once know it; one that writes alone has the  *)
(* file as it truncated it.                                                *)
WriterInv ==
  \A h \in Writing : /\ file # Absent
                     /\ ~ req[h].lapped => file = <<>> /\ \A g \in Writing : g = h

(* While an upload is settled, nobody is on the way to write over it but   *)
(* with another upload.                                                    *)
SettledInv ==
  settled # None => file = Whole(settled) /\ Writing = {} /\ Fetching = {}

(* What is there once stays there.                                         *)
KnownInv == \A h \in Handler : req[h].known => file # Absent

GatewayInv ==
  /\ TypeOK /\ BodyInv /\ FetcherInv /\ WriterInv /\ SettledInv /\ KnownInv
  /\ DamageHasACause /\ AssetsAreOriginals /\ NoFalseMiss

-----------------------------------------------------------------------------
(***************************************************************************)
(* Bodies                                                                  *)
(***************************************************************************)

LEMMA Lengths ==
  /\ Len(Profile) = 2 /\ Len(Asset) = 1 /\ Len(Huge) = 1 /\ Asset # Huge
  /\ \A k \in Keys : Size(k) \in {2, 3, 4}
  BY DEF Profile, Asset, Huge, Size, Keys

LEMMA Originals ==
  ASSUME NEW n \in Hosts, NEW k \in Keys
  PROVE  /\ Original(n, k) \in Seq(Block) /\ Len(Original(n, k)) = Size(k)
         /\ \A i \in 1 .. Size(k) : Original(n, k)[i] = n
<1>1. Size(k) \in Nat /\ n \in Block
  BY Lengths DEF Block
<1> HIDE DEF Size
<1> QED
  BY <1>1 DEF Original

(* What came of a host's file fits, and has the host's blocks; it is the   *)
(* file if it has its size.                                                *)
LEMMA Beginnings ==
  ASSUME NEW n \in Hosts, NEW k \in Keys, NEW end \in 0 .. Size(k), end <= MaxUpstream,
         NEW b, b = Beginning(Original(n, k), end)
  PROVE  /\ b \in Body /\ Len(b) = end /\ \A i \in 1 .. Len(b) : b[i] = n
         /\ Len(b) = Size(k) => b = Original(n, k)
<1>1. /\ Original(n, k) \in Seq(Block) /\ Len(Original(n, k)) = Size(k) /\ Size(k) \in Nat
      /\ \A i \in 1 .. Size(k) : Original(n, k)[i] = n
  BY Originals, Lengths
<1> HIDE DEF Size
<1>2. /\ b \in Seq(Block) /\ Len(b) = end /\ \A i \in 1 .. end : b[i] = Original(n, k)[i]
  BY <1>1 DEF Beginning
<1>3. \A i \in 1 .. end : b[i] = n
  BY <1>1, <1>2
<1>4. end = Size(k) => b = Original(n, k)
  BY <1>1, <1>2 DEF Beginning
<1> QED
  BY <1>2, <1>3, <1>4 DEF Body

LEMMA CutBodies ==
  ASSUME NEW b \in Body, NEW end \in 0 .. Len(b)
  PROVE  /\ Beginning(b, end) \in Body /\ Len(Beginning(b, end)) = end
         /\ \A i \in 1 .. end : Beginning(b, end)[i] = b[i]
<1>1. b \in Seq(Block) /\ Len(b) \in Nat /\ Len(b) <= MaxUpstream
  BY DEF Body
<1>2. /\ Beginning(b, end) \in Seq(Block) /\ Len(Beginning(b, end)) = end
      /\ \A i \in 1 .. end : Beginning(b, end)[i] = b[i]
  BY <1>1 DEF Beginning
<1> QED
  BY <1>1, <1>2 DEF Body, MaxUpstream

LEMMA UploadBodies ==
  \A v \in Uploads : /\ <<v>> \in Body /\ Len(<<v>>) = 1
                     /\ Whole(v) \in Body /\ Len(Whole(v)) = 2 /\ Whole(v)[1] = v
  BY DEF Body, Block, Whole, MaxUpstream

LEMMA AbsentIsNoBody ==
  /\ \A b \in Body : b # Absent
  /\ \A v \in Uploads : v # None
  BY GatewayAssumption DEF Body, Block, Absent, None

(* A body over an empty file is the file; over another one, it is a body.  *)
LEMMA OverEmpty ==
  ASSUME NEW b \in Body
  PROVE  Overwritten(<<>>, b) = b
<1>1. b \in Seq(Block) /\ Len(b) \in Nat
  BY DEF Body
<1>2. Overwritten(<<>>, b) = [i \in 1 .. Len(b) |-> b[i]]
  BY <1>1 DEF Overwritten
<1> QED
  BY <1>1, <1>2

LEMMA OverType ==
  ASSUME NEW a \in Body, NEW b \in Body
  PROVE  Overwritten(a, b) \in Body
<1>0. a \in Seq(Block) /\ b \in Seq(Block) /\ Len(a) <= MaxUpstream /\ Len(b) <= MaxUpstream
  BY DEF Body
<1>a. Len(a) \in Nat /\ Len(b) \in Nat
  BY <1>0
<1>b. MaxUpstream \in Nat
  BY DEF MaxUpstream
<1>1. Len(a) \in 0 .. MaxUpstream /\ Len(b) \in 0 .. MaxUpstream
  BY <1>0, <1>a, <1>b
<1>2. PICK n \in 0 .. MaxUpstream : /\ n = IF Len(a) > Len(b) THEN Len(a) ELSE Len(b)
                                    /\ n \in Nat
  BY <1>1 DEF MaxUpstream
<1>3. Overwritten(a, b) = [i \in 1 .. n |-> IF i <= Len(b) THEN b[i] ELSE a[i]]
  BY <1>2 DEF Overwritten
<1>4. \A i \in 1 .. n : (IF i <= Len(b) THEN b[i] ELSE a[i]) \in Block
  BY <1>0, <1>1, <1>2
<1>5. Overwritten(a, b) \in Seq(Block) /\ Len(Overwritten(a, b)) = n
  BY <1>2, <1>3, <1>4
<1> QED
  BY <1>2, <1>5 DEF Body

(* What is in a file after a write was in it or in the body.               *)
LEMMA OverBlocks ==
  ASSUME NEW a \in Body, NEW b \in Body
  PROVE  LET o == Overwritten(a, b) IN
         /\ Len(o) = IF Len(a) > Len(b) THEN Len(a) ELSE Len(b)
         /\ \A i \in 1 .. Len(o) : \/ i \in 1 .. Len(b) /\ o[i] = b[i]
                                   \/ i \in 1 .. Len(a) /\ o[i] = a[i]
<1>1. Len(a) \in Nat /\ Len(b) \in Nat
  BY DEF Body
<1>2. PICK n \in Nat : n = IF Len(a) > Len(b) THEN Len(a) ELSE Len(b)
  BY <1>1
<1>3. Overwritten(a, b) = [i \in 1 .. n |-> IF i <= Len(b) THEN b[i] ELSE a[i]]
  BY <1>2 DEF Overwritten
<1>4. Len(Overwritten(a, b)) = n
  BY <1>3, OverType DEF Body
<1> QED
  BY <1>1, <1>2, <1>3, <1>4

-----------------------------------------------------------------------------
(***************************************************************************)
(* Steps that write nothing                                                *)
(***************************************************************************)

(* A handler goes from where it does not write to where it does not.       *)
LEMMA QuietStep ==
  ASSUME GatewayInv, NEW h \in Handler, NEW l \in States \ {"write"}, NEW r \in Request,
         Goto(h, l, r), UNCHANGED <<key, file, damaged, settled>>,
         st[h] # "write", ReqOK(key, l, r), AsksOK(l, r),
         ~ r.put /\ l \in {"check", "fetch", "open"} => h \in Fetching \/ file = Absent,
         r.known => file # Absent,
         l = "answer" /\ ~ r.put /\ r.known => r.found,
         failed' \subseteq Hosts, unused' \subseteq Uploads, faults' \in Nat
  PROVE  GatewayInv'
<1>1. /\ st' = [st EXCEPT ![h] = l] /\ req' = [req EXCEPT ![h] = r]
      /\ st \in [Handler -> States] /\ req \in [Handler -> Request]
  BY DEF Goto, GatewayInv, TypeOK
<1>2. /\ \A g \in Handler \ {h} : st'[g] = st[g] /\ req'[g] = req[g]
      /\ st'[h] = l /\ req'[h] = r
  BY <1>1
<1>3. Writing' = Writing /\ \A g \in Writing : req'[g] = req[g]
  BY <1>2 DEF Writing
<1>4. TypeOK'
  BY <1>1 DEF GatewayInv, TypeOK
<1>5. BodyInv' /\ FetcherInv'
  BY <1>2 DEF GatewayInv, BodyInv, FetcherInv
<1>6. WriterInv'
  BY <1>3 DEF GatewayInv, WriterInv
<1>7. SettledInv'
  <2>1. SUFFICES ASSUME settled # None PROVE Fetching' = {}
    BY <1>3 DEF GatewayInv, SettledInv
  <2>2. Fetching = {} /\ file = Whole(settled) /\ settled \in Uploads
    BY <2>1 DEF GatewayInv, SettledInv, TypeOK
  <2>3. file # Absent
    BY <2>2, UploadBodies, AbsentIsNoBody
  <2> QED
    BY <1>2, <2>2, <2>3 DEF Fetching
<1>8. KnownInv'
  BY <1>2 DEF GatewayInv, KnownInv
<1>9. DamageHasACause' /\ AssetsAreOriginals'
  BY <1>3 DEF GatewayInv, DamageHasACause, AssetsAreOriginals
<1>10. NoFalseMiss'
  BY <1>2 DEF GatewayInv, NoFalseMiss
<1> QED
  BY <1>4, <1>5, <1>6, <1>7, <1>8, <1>9, <1>10 DEF GatewayInv

LEMMA PutKeys ==
  ASSUME key \in Keys, NEW path \in {key, <<"bucket">> \o key}, PutAllowed(KeyFromPath(path))
  PROVE  key = Profile
<1>1. ASSUME NEW x, key = <<x>> PROVE Len(KeyFromPath(path)) = 1
  <2> DEFINE T == {"bucket", x}
  <2>1. <<x>> \in Seq(T) /\ <<"bucket">> \in Seq(T) /\ Len(<<x>>) = 1 /\ Len(<<"bucket">>) = 1
    OBVIOUS
  <2>2. <<"bucket">> \o <<x>> \in Seq(T) /\ Len(<<"bucket">> \o <<x>>) = 2
    BY <2>1
  <2>3. Len(Tail(<<"bucket">> \o <<x>>)) = 1
    BY <2>2
  <2> QED
    BY <1>1, <2>1, <2>2, <2>3 DEF KeyFromPath
<1>2. key # Profile => \E x : key = <<x>>
  BY DEF Keys, Asset, Huge
<1> QED
  BY <1>1, <1>2, Lengths DEF PutAllowed

LEMMA QuietSteps ==
  ASSUME GatewayInv, NEW h \in Handler,
         Requests(h) \/ Lookup(h) \/ CheckFailures(h) \/ Fetched(h) \/ FetchFails(h)
           \/ FetchRaises(h) \/ OpenRaises(h) \/ ReadFile(h) \/ Answer(h)
  PROVE  GatewayInv'
<1>0. /\ TypeOK /\ req[h] \in Request /\ st[h] \in States /\ <<>> \in Body
      /\ NoRequest \in Request
  BY DEF GatewayInv, TypeOK, Body, MaxUpstream, NoRequest, Request
<1>1. ASSUME NEW n \in Hosts \cup {Elsewhere, None}, Get(h, n) PROVE GatewayInv'
  <2> DEFINE r == [NoRequest EXCEPT !.host = n, !.known = file # Absent]
  <2>1. r \in Request /\ ~ r.put /\ (r.known <=> file # Absent)
    BY <1>0 DEF NoRequest, Request
  <2> QED
    BY <1>0, <1>1, <2>1, QuietStep DEF Get, States, ReqOK, AsksOK, TypeOK
<1>2. ASSUME NEW path \in {key, <<"bucket">> \o key}, NEW v \in unused,
             NEW body \in {<<v>>, Whole(v)}, Put(h, path, v, body)
      PROVE  GatewayInv'
  <2>1. v \in Uploads /\ unused' \subseteq Uploads /\ body \in Body
    BY <1>0, <1>2, UploadBodies DEF Put, TypeOK
  <2>2. CASE PutAllowed(KeyFromPath(path))
    <3> DEFINE r == [NoRequest EXCEPT !.put = TRUE, !.body = body]
    <3>1. r \in Request /\ r.put /\ ~ r.known /\ r.body = body
      BY <1>0, <2>1 DEF NoRequest, Request
    <3>2. ReqOK(key, "open", r)
      BY <1>0, <2>1, <2>2, <3>1, PutKeys DEF ReqOK, TypeOK
    <3>3. Goto(h, "open", r)
      BY <1>2, <2>2 DEF Put
    <3> HIDE DEF r
    <3> QED
      BY <1>0, <1>2, <2>1, <3>1, <3>2, <3>3, QuietStep DEF Put, States, AsksOK, TypeOK
  <2>3. CASE ~ PutAllowed(KeyFromPath(path))
    <3> DEFINE r == [NoRequest EXCEPT !.put = TRUE]
    <3>1. r \in Request /\ r.put /\ ~ r.known
      BY <1>0 DEF NoRequest, Request
    <3>2. Goto(h, "answer", r)
      BY <1>2, <2>3 DEF Put
    <3> HIDE DEF r
    <3> QED
      BY <1>0, <1>2, <2>1, <3>1, <3>2, QuietStep DEF Put, States, AsksOK, TypeOK, ReqOK
  <2> QED
    BY <2>2, <2>3
<1>3. CASE Lookup(h)
  <2>1. ~ req[h].put /\ (req[h].known => file # Absent)
    BY <1>3 DEF Lookup, GatewayInv, KnownInv, FetcherInv, AsksOK
  <2>2. CASE Misses(h) /\ req[h].host \in Hosts
    <3>1. Goto(h, "check", req[h]) /\ file = Absent
      BY <1>3, <2>2 DEF Lookup, Misses
    <3> QED
      BY <1>0, <1>3, <2>1, <2>2, <3>1, QuietStep DEF Lookup, States, ReqOK, AsksOK, TypeOK
  <2>3. CASE ~ (Misses(h) /\ req[h].host \in Hosts)
    <3> DEFINE r == [req[h] EXCEPT !.host = None]
    <3>1. r \in Request /\ r.put = req[h].put /\ r.known = req[h].known
      BY <1>0 DEF Request
    <3>2. Goto(h, "read", r)
      BY <1>3, <2>3 DEF Lookup
    <3> HIDE DEF r
    <3> QED
      BY <1>0, <1>3, <2>1, <3>1, <3>2, QuietStep DEF Lookup, States, ReqOK, AsksOK, TypeOK
  <2> QED
    BY <2>2, <2>3
<1>4. CASE CheckFailures(h)
  <2>1. /\ ~ req[h].put /\ (req[h].known => file # Absent) /\ h \in Fetching
        /\ req[h].host \in Hosts
    BY <1>4 DEF CheckFailures, Fetching, GatewayInv, KnownInv, FetcherInv, AsksOK
  <2>2. CASE req[h].host \in failed
    <3> DEFINE r == [req[h] EXCEPT !.host = None]
    <3>1. r \in Request /\ r.put = req[h].put /\ r.known = req[h].known
      BY <1>0 DEF Request
    <3>2. Goto(h, "read", r)
      BY <1>4, <2>2 DEF CheckFailures
    <3> HIDE DEF r
    <3> QED
      BY <1>0, <1>4, <2>1, <3>1, <3>2, QuietStep DEF CheckFailures, States, ReqOK, AsksOK, TypeOK
  <2>3. CASE req[h].host \notin failed
    <3>1. Goto(h, "fetch", req[h])
      BY <1>4, <2>3 DEF CheckFailures
    <3> QED
      BY <1>0, <1>4, <2>1, <3>1, QuietStep DEF CheckFailures, States, ReqOK, AsksOK, TypeOK
  <2> QED
    BY <2>2, <2>3
<1>5. CASE Fetched(h)
  <2>1. /\ ~ req[h].put /\ (req[h].known => file # Absent) /\ h \in Fetching
        /\ req[h].host \in Hosts /\ key \in Keys
    BY <1>0, <1>5 DEF Fetched, Fetching, GatewayInv, KnownInv, FetcherInv, AsksOK, TypeOK
  <2>2. PICK n \in Hosts : n = req[h].host
    BY <2>1
  <2>8. PICK end \in 0 .. Size(key) :
          /\ end <= MaxUpstream
          /\ Goto(h, "open", [req[h] EXCEPT !.host = None, !.body = Beginning(Original(n, key), end)])
    BY <1>5, <2>2 DEF Fetched
  <2> DEFINE b == Beginning(Original(n, key), end)
  <2>3. /\ end <= MaxUpstream /\ b = Beginning(Original(n, key), end)
        /\ Goto(h, "open", [req[h] EXCEPT !.host = None, !.body = b])
    BY <2>8
  <2> HIDE DEF b
  <2> DEFINE r == [req[h] EXCEPT !.host = None, !.body = b]
  <2>4. b \in Body
    BY <2>1, <2>3, Beginnings
  <2>5. r \in Request /\ r.put = req[h].put /\ r.known = req[h].known /\ r.body = b
    BY <1>0, <2>4 DEF Request
  <2>6. ReqOK(key, "open", r)
    BY <2>1, <2>3, <2>5 DEF ReqOK
  <2>7. Goto(h, "open", r) /\ failed' \subseteq Hosts
    BY <1>0, <1>5, <2>3 DEF Fetched, TypeOK
  <2> HIDE DEF r
  <2> QED
    BY <1>0, <1>5, <2>1, <2>5, <2>6, <2>7, QuietStep DEF Fetched, States, AsksOK, TypeOK
<1>6. CASE FetchFails(h)
  <2> DEFINE r == [req[h] EXCEPT !.host = None, !.known = file # Absent]
  <2>1. r \in Request /\ (r.known <=> file # Absent)
    BY <1>0 DEF Request
  <2>2. Goto(h, "read", r)
    BY <1>6 DEF FetchFails, AfterFailure
  <2>3. failed' \subseteq Hosts
    BY <1>0, <1>6 DEF FetchFails, GatewayInv, FetcherInv, AsksOK, TypeOK
  <2> HIDE DEF r
  <2> QED
    BY <1>0, <1>6, <2>1, <2>2, <2>3, QuietStep DEF FetchFails, States, ReqOK, AsksOK, TypeOK
<1>7. CASE ReadFile(h)
  <2> DEFINE r == [req[h] EXCEPT !.found = file # Absent]
  <2>1. r \in Request /\ (r.found <=> file # Absent) /\ r.known = req[h].known
    BY <1>0 DEF Request
  <2>2. Goto(h, "answer", r)
    BY <1>7 DEF ReadFile
  <2>3. r.known => file # Absent
    BY <2>1 DEF GatewayInv, KnownInv
  <2> HIDE DEF r
  <2> QED
    BY <1>0, <1>7, <2>1, <2>2, <2>3, QuietStep DEF ReadFile, States, ReqOK, AsksOK, TypeOK
<1>8. CASE Answer(h)
  <2>1. ~ NoRequest.known
    BY DEF NoRequest
  <2> QED
    BY <1>0, <1>8, <2>1, QuietStep DEF Answer, States, ReqOK, AsksOK, TypeOK
<1>9. CASE FetchRaises(h) \/ OpenRaises(h)
  <2>1. ~ NoRequest.known
    BY DEF NoRequest
  <2>2. faults' \in Nat
    BY <1>0, <1>9 DEF FetchRaises, OpenRaises, Fault, TypeOK
  <2> QED
    BY <1>0, <1>9, <2>1, <2>2, QuietStep
       DEF FetchRaises, OpenRaises, States, ReqOK, AsksOK, TypeOK
<1> QED
  BY <1>1, <1>2, <1>3, <1>4, <1>5, <1>6, <1>7, <1>8, <1>9 DEF Requests

-----------------------------------------------------------------------------
(***************************************************************************)
(* Steps that write                                                        *)
(***************************************************************************)

LEMMA OpenStep ==
  ASSUME GatewayInv, NEW h \in Handler, Open(h)
  PROVE  GatewayInv'
<1>0. /\ TypeOK /\ BodyInv /\ WriterInv /\ SettledInv /\ KnownInv /\ st[h] = "open"
      /\ NoFalseMiss /\ FetcherInv
  BY DEF GatewayInv, Open
<1>a. <<>> \in Body
  BY DEF Body, MaxUpstream
<1>1. /\ file' = <<>> /\ file' \in Body /\ file' # Absent
      /\ st' = [st EXCEPT ![h] = "write"]
      /\ UNCHANGED <<key, failed, unused, faults, damaged>>
  BY <1>a, AbsentIsNoBody DEF Open, Truncated
<1>2. /\ req' \in [Handler -> Request]
      /\ \A g \in Handler : /\ req'[g].put = req[g].put /\ req'[g].body = req[g].body
                            /\ req'[g].known = req[g].known /\ req'[g].found = req[g].found
                            /\ req'[g].host = req[g].host
                            /\ g \in Writing \/ (g = h /\ Writing # {}) => req'[g].lapped
  BY <1>0 DEF Open, TypeOK, Request
<1>3. /\ \A g \in Handler \ {h} : st'[g] = st[g]
      /\ st'[h] = "write" /\ st' \in [Handler -> States]
  BY <1>0, <1>1 DEF TypeOK, States
<1>4. Writing' = Writing \cup {h}
  BY <1>3 DEF Writing
<1>5. settled' = IF req[h].put THEN None ELSE settled
  BY DEF Open
<1>6. TypeOK'
  BY <1>0, <1>1, <1>2, <1>3, <1>5 DEF TypeOK
<1>7. BodyInv' /\ FetcherInv'
  <2>1. ASSUME NEW g \in Handler
        PROVE  ReqOK(key, st'[g], req'[g]) /\ AsksOK(st'[g], req'[g])
    <3>1. ReqOK(key, st[g], req[g]) /\ AsksOK(st[g], req[g])
      BY <1>0 DEF BodyInv, FetcherInv
    <3>2. /\ st'[g] = st[g] \/ (st[g] = "open" /\ st'[g] = "write")
          /\ req'[g].put = req[g].put /\ req'[g].body = req[g].body
          /\ req'[g].host = req[g].host
      BY <1>0, <1>2, <1>3
    <3> QED
      BY <3>1, <3>2 DEF ReqOK, AsksOK
  <2> QED
    BY <1>1, <2>1 DEF BodyInv, FetcherInv
<1>8. WriterInv'
  BY <1>1, <1>2, <1>4 DEF WriterInv, Writing
<1>9. SettledInv'
  <2>1. req[h].put \/ h \in Fetching
    BY <1>0 DEF Fetching, TypeOK, Request
  <2> QED
    BY <1>0, <1>5, <2>1 DEF SettledInv
<1>10. KnownInv' /\ DamageHasACause' /\ AssetsAreOriginals'
  <2>1. Len(file') = 0 /\ 0 <= Size(key) /\ key' = key
    BY <1>0, <1>1, Lengths DEF TypeOK
  <2>2. AssetsAreOriginals'
    BY <2>1 DEF AssetsAreOriginals
  <2> QED
    BY <1>1, <1>4, <2>2 DEF KnownInv, DamageHasACause
<1>11. NoFalseMiss'
  BY <1>0, <1>2, <1>3 DEF NoFalseMiss
<1> QED
  BY <1>0, <1>6, <1>7, <1>8, <1>9, <1>10, <1>11 DEF GatewayInv

(* A body of one allowed host's blocks leaves only allowed hosts' blocks in *)
(* the file.                                                               *)
LEMMA AssetWrite ==
  ASSUME key \in Keys, AssetsAreOriginals, file \in Body, UNCHANGED key,
         NEW b \in Body, file' = Overwritten(file, b),
         key # Profile => \E n \in Hosts : /\ \A i \in 1 .. Len(b) : b[i] = n
                                           /\ Len(b) <= Size(key)
  PROVE  AssetsAreOriginals'
<1> SUFFICES ASSUME key # Profile
             PROVE  /\ Len(file') <= Size(key)
                    /\ \A i \in 1 .. Len(file') : \E n \in Hosts : file'[i] = Original(n, key)[i]
  BY DEF AssetsAreOriginals
<1>1. /\ Size(key) \in Nat /\ Len(b) \in Nat /\ Len(file) \in Nat
      /\ \A n \in Hosts : \A i \in 1 .. Size(key) : Original(n, key)[i] = n
  BY Lengths, Originals DEF Body
<1>2. PICK n \in Hosts : /\ \A i \in 1 .. Len(b) : b[i] = n
                        /\ Len(b) <= Size(key)
  OBVIOUS
<1>3. /\ Len(file) <= Size(key)
      /\ \A i \in 1 .. Len(file) : \E m \in Hosts : file[i] = Original(m, key)[i]
  BY AbsentIsNoBody DEF AssetsAreOriginals
<1>4. /\ Len(file') = IF Len(file) > Len(b) THEN Len(file) ELSE Len(b)
      /\ \A i \in 1 .. Len(file') : \/ i \in 1 .. Len(b) /\ file'[i] = b[i]
                                    \/ i \in 1 .. Len(file) /\ file'[i] = file[i]
  BY OverBlocks
<1> HIDE DEF Size, Original
<1>5. Len(file') <= Size(key)
  BY <1>1, <1>2, <1>3, <1>4
<1>6. ASSUME NEW i \in 1 .. Len(file')
      PROVE  \E m \in Hosts : file'[i] = Original(m, key)[i]
  <2>1. CASE i \in 1 .. Len(b) /\ file'[i] = b[i]
    BY <1>1, <1>2, <2>1
  <2>2. CASE i \in 1 .. Len(file) /\ file'[i] = file[i]
    BY <1>3, <2>2
  <2> QED
    BY <1>4, <2>1, <2>2
<1> QED
  BY <1>5, <1>6

LEMMA WriteStep ==
  ASSUME GatewayInv, NEW h \in Handler, WriteFile(h)
  PROVE  GatewayInv'
<1> DEFINE body == req[h].body
           clean == ~ req[h].lapped /\ Len(body) = IF req[h].put THEN 2 ELSE Size(key)
           l == IF req[h].put THEN "answer" ELSE "read"
           r == [req[h] EXCEPT !.body = <<>>, !.lapped = FALSE]
<1>0. /\ TypeOK /\ BodyInv /\ FetcherInv /\ WriterInv /\ SettledInv /\ KnownInv
      /\ NoFalseMiss /\ AssetsAreOriginals /\ st[h] = "write" /\ h \in Writing
  BY DEF GatewayInv, WriteFile, Writing
<1>1. /\ file' = Overwritten(file, body)
      /\ damaged' = ~ clean
      /\ settled' = IF req[h].put /\ clean /\ Fetching = {} THEN body[1] ELSE settled
      /\ st' = [st EXCEPT ![h] = l] /\ req' = [req EXCEPT ![h] = r]
      /\ UNCHANGED <<key, failed, unused, faults>>
  BY DEF WriteFile, Goto
<1>2. /\ req[h] \in Request /\ body \in Body /\ file \in Body /\ <<>> \in Body
      /\ ReqOK(key, "write", req[h]) /\ key \in Keys
  BY <1>0 DEF TypeOK, WriterInv, BodyInv, Request, Body, MaxUpstream
<1>3. /\ r \in Request /\ r.put = req[h].put /\ r.known = req[h].known
      /\ l \in {"answer", "read"} /\ (l = "answer" => r.put)
  BY <1>2 DEF Request
<1>4. /\ \A g \in Handler \ {h} : st'[g] = st[g] /\ req'[g] = req[g]
      /\ st'[h] = l /\ req'[h] = r
      /\ st' \in [Handler -> States] /\ req' \in [Handler -> Request]
  BY <1>0, <1>1, <1>3 DEF TypeOK, States
<1>5. file' \in Body /\ file' # Absent
  BY <1>1, <1>2, OverType, AbsentIsNoBody
<1>6. ~ req[h].lapped => file' = body /\ Writing = {h}
  BY <1>0, <1>1, <1>2, OverEmpty DEF WriterInv
<1>7. ~ req[h].put => \E n \in Hosts : /\ \A i \in 1 .. Len(body) : body[i] = n
                                       /\ Len(body) <= Size(key)
                                       /\ Len(body) = Size(key) => body = Original(n, key)
  <2> SUFFICES ASSUME ~ req[h].put
               PROVE  \E n \in Hosts : /\ \A i \in 1 .. Len(body) : body[i] = n
                                       /\ Len(body) <= Size(key)
                                       /\ Len(body) = Size(key) => body = Original(n, key)
    OBVIOUS
  <2>1. PICK n \in Hosts, end \in 0 .. Size(key) :
          end <= MaxUpstream /\ body = Beginning(Original(n, key), end)
    BY <1>2 DEF ReqOK
  <2>2. Size(key) \in Nat
    BY <1>2, Lengths
  <2> QED
    BY <1>2, <2>1, <2>2, Beginnings
<1>8. req[h].put /\ clean => key = Profile /\ \E v \in Uploads : body = Whole(v) /\ body[1] = v
  <2> SUFFICES ASSUME req[h].put, clean
               PROVE  key = Profile /\ \E v \in Uploads : body = Whole(v) /\ body[1] = v
    OBVIOUS
  <2>1. PICK v \in Uploads : body = <<v>> \/ body = Whole(v)
    BY <1>2 DEF ReqOK
  <2>2. body # <<v>>
    BY UploadBodies
  <2> QED
    BY <1>2, <2>1, <2>2, UploadBodies DEF ReqOK
<1> HIDE DEF body, l, r
<1>9. Writing' = Writing \ {h}
  BY <1>3, <1>4 DEF Writing
<1>10. settled' \in Uploads \cup {None} /\ damaged' \in BOOLEAN
  BY <1>0, <1>1, <1>8 DEF TypeOK
<1>11. TypeOK'
  BY <1>0, <1>1, <1>4, <1>5, <1>10 DEF TypeOK
<1>12. BodyInv' /\ FetcherInv'
  BY <1>0, <1>1, <1>3, <1>4 DEF BodyInv, FetcherInv, ReqOK, AsksOK
<1>13. WriterInv'
  <2>1. \A g \in Writing \ {h} : req[g].lapped /\ g \in Handler
    BY <1>0 DEF WriterInv, Writing
  <2> QED
    BY <1>4, <1>5, <1>9, <2>1 DEF WriterInv
<1>14. SettledInv'
  <2>1. settled = None
    BY <1>0 DEF SettledInv
  <2>2. CASE ~ (req[h].put /\ clean /\ Fetching = {})
    <3>1. settled' = None
      BY <1>1, <2>1, <2>2
    <3> QED
      BY <3>1 DEF SettledInv, None
  <2>3. CASE req[h].put /\ clean /\ Fetching = {}
    <3>1. file' = Whole(settled')
      BY <1>1, <1>6, <1>8, <2>3
    <3>2. Writing' = {}
      BY <1>6, <1>9, <2>3
    <3>3. Fetching' = {}
      BY <1>3, <1>4, <2>3 DEF Fetching
    <3> QED
      BY <3>1, <3>2, <3>3 DEF SettledInv
  <2> QED
    BY <2>2, <2>3
<1>15. KnownInv'
  BY <1>5 DEF KnownInv
<1>16. DamageHasACause'
  <2>1. ASSUME ~ req[h].put, clean PROVE \E n \in Hosts : body = Original(n, key)
    <3>1. Len(body) = Size(key)
      BY <1>2, <2>1 DEF Request
    <3> HIDE DEF clean
    <3> QED
      BY <1>7, <2>1, <3>1
  <2> QED
    BY <1>1, <1>6, <1>8, <2>1 DEF DamageHasACause
<1>17. AssetsAreOriginals'
  <2>1. key # Profile => ~ req[h].put
    <3>1. CASE req[h].put
      BY <1>2, <3>1 DEF ReqOK
    <3> QED
      BY <3>1
  <2>2. key # Profile => \E n \in Hosts : /\ \A i \in 1 .. Len(body) : body[i] = n
                                          /\ Len(body) <= Size(key)
    BY <1>7, <2>1
  <2> QED
    BY <1>0, <1>1, <1>2, <2>2, AssetWrite
<1>18. NoFalseMiss'
  BY <1>0, <1>3, <1>4 DEF NoFalseMiss
<1> QED
  BY <1>11, <1>12, <1>13, <1>14, <1>15, <1>16, <1>17, <1>18 DEF GatewayInv

(* A write the disk cuts leaves a file that counts as damaged.             *)
LEMMA CutWriteStep ==
  ASSUME GatewayInv, NEW h \in Handler, WriteRaises(h)
  PROVE  GatewayInv'
<1>0. /\ TypeOK /\ BodyInv /\ FetcherInv /\ WriterInv /\ SettledInv /\ KnownInv
      /\ NoFalseMiss /\ AssetsAreOriginals /\ st[h] = "write" /\ h \in Writing
  BY DEF GatewayInv, WriteRaises, Writing
<1>1. PICK end \in 0 .. Len(req[h].body) :
        file' = Overwritten(file, Beginning(req[h].body, end))
  BY DEF WriteRaises
<1>2. /\ damaged' = TRUE /\ faults' \in Nat
      /\ st' = [st EXCEPT ![h] = "idle"] /\ req' = [req EXCEPT ![h] = NoRequest]
      /\ UNCHANGED <<key, failed, unused, settled>>
  BY <1>0 DEF WriteRaises, Fault, Goto, TypeOK
<1>3. /\ req[h].body \in Body /\ file \in Body /\ <<>> \in Body /\ key \in Keys
      /\ ReqOK(key, "write", req[h])
  BY <1>0 DEF TypeOK, WriterInv, BodyInv, Request, Body, MaxUpstream
<1>4. PICK b \in Body : /\ b = Beginning(req[h].body, end) /\ Len(b) = end
                        /\ \A i \in 1 .. end : b[i] = req[h].body[i]
  BY <1>1, <1>3, CutBodies
<1>5. NoRequest \in Request /\ ~ NoRequest.known
  BY <1>3 DEF NoRequest, Request
<1>6. /\ \A g \in Handler \ {h} : st'[g] = st[g] /\ req'[g] = req[g]
      /\ st'[h] = "idle" /\ req'[h] = NoRequest
      /\ st' \in [Handler -> States] /\ req' \in [Handler -> Request]
  BY <1>0, <1>2, <1>5 DEF TypeOK, States
<1>7. file' \in Body /\ file' # Absent
  BY <1>1, <1>3, <1>4, OverType, AbsentIsNoBody
<1>8. Writing' = Writing \ {h}
  BY <1>6 DEF Writing
<1>9. TypeOK'
  BY <1>0, <1>2, <1>6, <1>7 DEF TypeOK
<1>10. BodyInv' /\ FetcherInv'
  BY <1>0, <1>2, <1>6 DEF BodyInv, FetcherInv, ReqOK, AsksOK
<1>11. WriterInv'
  <2>1. ASSUME NEW g \in Writing \ {h} PROVE req[g].lapped /\ req[h].lapped /\ g \in Handler
    BY <1>0 DEF WriterInv, Writing
  <2> QED
    BY <1>6, <1>7, <1>8, <2>1 DEF WriterInv
<1>12. SettledInv'
  BY <1>0, <1>2 DEF SettledInv
<1>13. KnownInv' /\ DamageHasACause'
  BY <1>2, <1>7 DEF KnownInv, DamageHasACause
<1>14. AssetsAreOriginals'
  <2>1. ASSUME key # Profile
        PROVE  \E n \in Hosts : /\ \A i \in 1 .. Len(b) : b[i] = n
                                /\ Len(b) <= Size(key)
    <3>1. PICK n \in Hosts, e \in 0 .. Size(key) :
            e <= MaxUpstream /\ req[h].body = Beginning(Original(n, key), e)
      BY <1>3, <2>1 DEF ReqOK
    <3>2. Len(req[h].body) = e /\ (\A i \in 1 .. Len(req[h].body) : req[h].body[i] = n)
          /\ Size(key) \in Nat
      BY <1>3, <3>1, Beginnings, Lengths
    <3> HIDE DEF Size
    <3> QED
      BY <1>4, <3>2
  <2> QED
    BY <1>0, <1>1, <1>2, <1>3, <1>4, <2>1, AssetWrite
<1>15. NoFalseMiss'
  BY <1>0, <1>5, <1>6 DEF NoFalseMiss
<1> QED
  BY <1>9, <1>10, <1>11, <1>12, <1>13, <1>14, <1>15 DEF GatewayInv

(* After a restart no handler is left; what was being written stays as it  *)
(* is.                                                                     *)
LEMMA RestartStep ==
  ASSUME GatewayInv, Restart
  PROVE  GatewayInv'
<1>1. /\ \A g \in Handler : st'[g] = "idle" /\ req'[g] = NoRequest
      /\ st' \in [Handler -> States] /\ Writing' = {} /\ Fetching' = {}
  BY DEF Restart, States, Writing, Fetching
<1>2. NoRequest \in Request /\ ~ NoRequest.known
  <2>1. <<>> \in Body
    BY DEF Body, MaxUpstream
  <2> QED
    BY <2>1 DEF NoRequest, Request
<1>3. /\ UNCHANGED <<key, file, unused, settled>> /\ failed' = {}
      /\ damaged' = (damaged \/ Writing # {}) /\ faults' \in Nat
      /\ req' \in [Handler -> Request]
  BY <1>2 DEF Restart, Fault, GatewayInv, TypeOK
<1>4. TypeOK'
  BY <1>1, <1>3 DEF GatewayInv, TypeOK
<1>5. BodyInv' /\ FetcherInv' /\ WriterInv' /\ KnownInv' /\ NoFalseMiss'
  BY <1>1, <1>2 DEF BodyInv, ReqOK, FetcherInv, AsksOK, WriterInv, KnownInv, NoFalseMiss
<1>6. SettledInv'
  BY <1>1, <1>3 DEF GatewayInv, SettledInv
<1>7. DamageHasACause' /\ AssetsAreOriginals'
  BY <1>3 DEF GatewayInv, DamageHasACause, AssetsAreOriginals
<1> QED
  BY <1>4, <1>5, <1>6, <1>7 DEF GatewayInv

LEMMA SameStep ==
  ASSUME GatewayInv, failed' \subseteq Hosts,
         UNCHANGED <<key, file, st, req, unused, faults, damaged, settled>>
  PROVE  GatewayInv'
<1>1. Writing' = Writing /\ Fetching' = Fetching
  BY DEF Writing, Fetching
<1>2. TypeOK'
  BY DEF GatewayInv, TypeOK
<1> QED
  BY <1>1, <1>2 DEF GatewayInv, BodyInv, ReqOK, FetcherInv, AsksOK, WriterInv, SettledInv,
                    KnownInv, DamageHasACause, AssetsAreOriginals, NoFalseMiss

LEMMA GatewayInductive == Spec => []GatewayInv
<1>1. Init => GatewayInv
  <2> SUFFICES ASSUME Init PROVE GatewayInv
    OBVIOUS
  <2>1. /\ \A h \in Handler : st[h] = "idle" /\ req[h] = NoRequest
        /\ Writing = {} /\ Fetching = {} /\ ~ NoRequest.known
    BY DEF Init, Writing, Fetching, NoRequest
  <2>2. NoRequest \in Request
    <3>1. <<>> \in Body
      BY DEF Body, MaxUpstream
    <3> QED
      BY <3>1 DEF NoRequest, Request
  <2>3. TypeOK
    BY <2>2 DEF Init, TypeOK, States
  <2> QED
    BY <2>1, <2>3 DEF Init, GatewayInv, BodyInv, ReqOK, FetcherInv, AsksOK, WriterInv,
                      SettledInv, KnownInv, DamageHasACause, AssetsAreOriginals, NoFalseMiss
<1>2. GatewayInv /\ [Next]_vars => GatewayInv'
  <2> SUFFICES ASSUME GatewayInv, [Next]_vars PROVE GatewayInv'
    OBVIOUS
  <2>1. CASE UNCHANGED vars \/ \E n \in Hosts : Expire(n)
    <3>1. /\ failed' \subseteq Hosts
          /\ UNCHANGED <<key, file, st, req, unused, faults, damaged, settled>>
      BY <2>1 DEF vars, Expire, GatewayInv, TypeOK
    <3> QED
      BY <3>1, SameStep
  <2>2. CASE Restart
    BY <2>2, RestartStep
  <2>3. ASSUME NEW h \in Handler, Requests(h) \/ Step(h) PROVE GatewayInv'
    BY <2>3, QuietSteps, OpenStep, WriteStep, CutWriteStep DEF Step
  <2> QED
    BY <2>1, <2>2, <2>3 DEF Next
<1> QED
  BY <1>1, <1>2, PTL DEF Spec

-----------------------------------------------------------------------------
(***************************************************************************)
(* What follows                                                            *)
(***************************************************************************)

(* Every variable stays in its type, and no file outgrows the limit of a   *)
(* fetch.                                                                  *)
THEOREM GatewayTypeCorrect == Spec => []TypeOK
<1>1. GatewayInv => TypeOK
  BY DEF GatewayInv
<1> QED
  BY <1>1, GatewayInductive, PTL

(* A complete upload that nobody else was about to write over is what the  *)
(* key holds until the next upload (http_gateway.py:267).                  *)
THEOREM UploadsAreKept == Spec => []UploadsRoundTrip
<1>1. GatewayInv => UploadsRoundTrip
  BY DEF GatewayInv, SettledInv, UploadsRoundTrip
<1> QED
  BY <1>1, GatewayInductive, PTL

(* A damaged file has one of the causes: a body cut by its sender, a write *)
(* cut by the disk or the death of the process, or an overlap; that        *)
(* several hosts are asked for one path is none (http_gateway.py:267).     *)
THEOREM DamageIsExplained == Spec => []DamageHasACause
<1>1. GatewayInv => DamageHasACause
  BY DEF GatewayInv
<1> QED
  BY <1>1, GatewayInductive, PTL

(* What may not be uploaded holds nothing but what allowed hosts have at   *)
(* that path, whatever hosts the clients name (http_gateway.py:174, 222).  *)
THEOREM AssetsStayOriginal == Spec => []AssetsAreOriginals
<1>1. GatewayInv => AssetsAreOriginals
  BY DEF GatewayInv
<1> QED
  BY <1>1, GatewayInductive, PTL

(* No GET is told that a file is missing which was there when it came or   *)
(* when its fetch came back (http_gateway.py:428).                         *)
THEOREM FilesAreFound == Spec => []NoFalseMiss
<1>1. GatewayInv => NoFalseMiss
  BY DEF GatewayInv
<1> QED
  BY <1>1, GatewayInductive, PTL
=============================================================================
