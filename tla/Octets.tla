------------------------------- MODULE Octets -------------------------------
(***************************************************************************)
(* The storages extension: a stream put under a path goes through the      *)
(* scanner to the provider, which commits the entry when the stream is     *)
(* stored; entries are read and deleted meanwhile.                         *)
(*                                                                         *)
(* Sizes are counted in units of which the scanner's header takes Header.  *)
(* A type is a model value; Known are those that have a signature.         *)
(***************************************************************************)
EXTENDS Naturals, Sequences, FiniteSets

CONSTANTS None, Uploads, Paths, Readers,
          Providers,      \* of "fs" and "s3"
          Header, Limit, MaxSize,
          Known,          \* types with a signature; the rest can be claimed
          Requests        \* upload -> what may be put: [claim, accept, signature]

(* What a stream may claim to be, or be by its signature.                  *)
Offered == UNION {Requests[u] : u \in Uploads}
Types == {"octet"} \cup {r.claim : r \in Offered} \cup {r.signature : r \in Offered}

ASSUME OctetsAssumption ==
    /\ IsFiniteSet(Uploads)
    /\ Providers \subseteq {"fs", "s3"} /\ None \notin {"fs", "s3"}
    /\ Header \in Nat \ {0} /\ Limit \in Nat /\ MaxSize \in Nat
    /\ None \notin Paths
    /\ None \notin [by : Uploads, size : 0..MaxSize]
    /\ None \notin [by : Uploads, size : 0..MaxSize, type : Types]
    /\ None \notin {{}, {"blob"}, {"meta"}, {"blob", "meta"}}

VARIABLES provider,  \* None until the storage is created
          blob,      \* path -> None or what is stored: [by, size]
          meta,      \* path -> None or the entry: [by, size, type]
          put,       \* upload -> its scanner and how far it has come
          deleting,  \* path -> what a delete has yet to remove, or None
          get        \* reader -> what it has read

octetVars == <<provider, blob, meta, put, deleting, get>>

Scanner == [size |-> 0, position |-> 0, completed |-> FALSE, errors |-> <<>>,
            type |-> "octet", signature |-> None, claim |-> None, accept |-> None]
Incoming(request) == [Scanner EXCEPT !.claim = request.claim, !.accept = request.accept,
                                   !.signature = request.signature]
NoPut == [phase |-> "none", path |-> None, aborted |-> FALSE, scanner |-> Scanner]
NoGet == [phase |-> "none", path |-> None, entry |-> None, content |-> None]

OctetsInit == /\ provider = None
              /\ blob = [p \in Paths |-> None] /\ meta = [p \in Paths |-> None]
              /\ put = [u \in Uploads |-> NoPut]
              /\ deleting = [p \in Paths |-> None]
              /\ get = [r \in Readers |-> NoGet]

(* Factory.createStorage. *)
CreateStorage == /\ provider = None
                 /\ provider' \in Providers
                 /\ UNCHANGED <<blob, meta, put, deleting, get>>

----------------------------------------------------------------------------
(* Scanner *)

(* complete: the signature, or else the claim, is the type; an unacceptable *)
(* type and a claim that is not kept both interrupt.                       *)
Complete(s) ==
    LET type == IF s.signature # None THEN s.signature ELSE s.claim
        unacceptable == type # None /\ s.accept # None /\ type \notin s.accept
        mismatch == /\ s.claim \notin {None, "octet"}
                    /\ IF s.signature = None THEN s.claim \in Known ELSE s.claim # s.signature
    IN  [s EXCEPT !.completed = TRUE,
                  !.type = IF type = None THEN @ ELSE type,
                  !.errors = @ \o (IF unacceptable THEN <<"NOT_ACCEPTABLE">> ELSE <<>>)
                               \o (IF mismatch THEN <<"TYPE_MISMATCH">> ELSE <<>>)]

(* process: nothing is looked at once the header is complete.              *)
Process(s, length) ==
    LET counted == [s EXCEPT !.size = @ + length]
        position == IF s.position + length > Header THEN Header ELSE s.position + length
        headed == [counted EXCEPT !.position = position]
        checked == IF position = Header THEN Complete(headed) ELSE headed
    IN  IF s.completed THEN counted
        ELSE IF checked.size > Limit
        THEN [checked EXCEPT !.completed = TRUE, !.errors = Append(@, "LIMIT_EXCEEDED")]
        ELSE checked

----------------------------------------------------------------------------
(* Storage.put *)

(* A path is the request's and an id, random unless the client gives one:  *)
(* then it may be the path of another entry, or of an upload under way.    *)
Put(u) ==
    /\ provider # None /\ put[u].phase = "none"
    /\ \E path \in Paths, request \in Requests[u] :
         /\ put' = [put EXCEPT ![u] =
              [phase |-> "streaming", path |-> path, aborted |-> FALSE,
               scanner |-> Incoming(request)]]
         /\ blob' = IF provider = "fs" THEN [blob EXCEPT ![path] = [by |-> u, size |-> 0]]
                    ELSE blob
    /\ UNCHANGED <<provider, meta, deleting, get>>

Streaming(u) == put[u].phase = "streaming" /\ put[u].scanner.errors = <<>>

(* Scanner._transform.  The file system writes as the stream comes. *)
Chunk(u) ==
    /\ Streaming(u) /\ ~put[u].aborted
    /\ \E length \in 1..(MaxSize - put[u].scanner.size) :
         LET s == Process(put[u].scanner, length)
         IN  /\ put' = [put EXCEPT ![u].scanner = s]
             /\ blob' = IF provider = "fs" /\ s.errors = <<>> /\ blob[put[u].path] # None
                        THEN [blob EXCEPT ![put[u].path] = [by |-> u, size |-> s.size]] ELSE blob
    /\ UNCHANGED <<provider, meta, deleting, get>>

(* The connection breaks: pipe() passes on neither an error nor an end.    *)
Abort(u) ==
    /\ Streaming(u) /\ ~put[u].aborted
    /\ put' = [put EXCEPT ![u].aborted = TRUE]
    /\ UNCHANGED <<provider, blob, meta, deleting, get>>

(* The provider has stored the stream; S3 replaces the object at once, and *)
(* its metadata with it.                                                   *)
End(u) ==
    /\ Streaming(u) /\ ~put[u].aborted /\ put[u].scanner.size > 0
    /\ put' = [put EXCEPT ![u].phase = "committing"]
    /\ IF provider = "s3"
       THEN /\ blob' = [blob EXCEPT ![put[u].path] = [by |-> u, size |-> put[u].scanner.size]]
            /\ meta' = [meta EXCEPT ![put[u].path] = None]
       ELSE UNCHANGED <<blob, meta>>
    /\ UNCHANGED <<provider, deleting, get>>

InterruptedPending(u) ==   \* faulty: a scanner that is done is not destroyed
    /\ put[u].phase = "streaming" /\ "TYPE_MISMATCH" \in {put[u].scanner.errors[i] : i \in DOMAIN put[u].scanner.errors}
    /\ put' = [put EXCEPT ![u].phase = "refused"]
    /\ UNCHANGED <<provider, blob, meta, deleting, get>>

(* The scanner was destroyed with its first error; it remembers its last   *)
(* one.  The provider's rejection is returned if they are the same.        *)
Interrupted(u) ==
    /\ put[u].phase = "streaming" /\ put[u].scanner.errors # <<>>
    /\ LET errors == put[u].scanner.errors
       IN  put' = [put EXCEPT ![u].phase =
                     IF Head(errors) = errors[Len(errors)] THEN "refused" ELSE "threw"]
    /\ UNCHANGED <<provider, blob, meta, deleting, get>>

(* The provider fails for a reason of its own. *)
Fail(u) ==
    /\ Streaming(u) \/ put[u].phase = "committing"
    /\ put' = [put EXCEPT ![u].phase = "threw"]
    /\ UNCHANGED <<provider, blob, meta, deleting, get>>

CommitFirst(u) ==   \* faulty: the entry is committed while the stream is being stored
    /\ put[u].phase = "committing" \/ (Streaming(u) /\ put[u].scanner.size > 0)
    /\ LET s == put[u].scanner
       IN  meta' = [meta EXCEPT ![put[u].path] = [by |-> u, size |-> s.size, type |-> s.type]]
    /\ put' = [put EXCEPT ![u].phase = IF @ = "committing" THEN "done" ELSE @]
    /\ UNCHANGED <<provider, blob, deleting, get>>

(* provider.commit: a file of its own, or a copy of the object onto itself. *)
Commit(u) ==
    /\ put[u].phase = "committing"
    /\ LET path == put[u].path
           s == put[u].scanner
       IN  IF provider = "s3" /\ blob[path] = None
           THEN put' = [put EXCEPT ![u].phase = "threw"] /\ UNCHANGED meta
           ELSE /\ put' = [put EXCEPT ![u].phase = "done"]
                /\ meta' = [meta EXCEPT ![path] = [by |-> u, size |-> s.size, type |-> s.type]]
    /\ UNCHANGED <<provider, blob, deleting, get>>

----------------------------------------------------------------------------
(* Storage.get, Storage.delete *)

(* S3 answers with the object and its metadata; the file system reads the  *)
(* metadata first.                                                         *)
Get(r, path) ==
    /\ provider # None /\ get[r].phase = "none"
    /\ get' = [get EXCEPT ![r] =
         IF meta[path] = None THEN [NoGet EXCEPT !.phase = "NOT_FOUND", !.path = path]
         ELSE [phase |-> IF provider = "s3" THEN "done" ELSE "head", path |-> path,
               entry |-> meta[path], content |-> IF provider = "s3" THEN blob[path] ELSE None]]
    /\ UNCHANGED <<provider, blob, meta, put, deleting>>

ReadContent(r) ==
    /\ get[r].phase = "head"
    /\ get' = [get EXCEPT ![r].phase = IF blob[get[r].path] = None THEN "broken" ELSE "done",
                          ![r].content = blob[get[r].path]]
    /\ UNCHANGED <<provider, blob, meta, put, deleting>>

(* Both files of the file system are removed at the same time.             *)
Delete(path) ==
    /\ deleting[path] = None /\ \E u \in Uploads : put[u].path = path
    /\ deleting' = [deleting EXCEPT ![path] = {"blob", "meta"}]
    /\ UNCHANGED <<provider, blob, meta, put, get>>

Erase(path) ==
    /\ deleting[path] \notin {None, {}}
    /\ \E parts \in IF provider = "s3" THEN {deleting[path]} ELSE {{x} : x \in deleting[path]} :
         /\ deleting' = [deleting EXCEPT ![path] = @ \ parts]
         /\ blob' = IF "blob" \in parts THEN [blob EXCEPT ![path] = None] ELSE blob
         /\ meta' = IF "meta" \in parts THEN [meta EXCEPT ![path] = None] ELSE meta
    /\ UNCHANGED <<provider, put, get>>

AdvancePut(u) == Chunk(u) \/ End(u) \/ Interrupted(u) \/ Commit(u)
OctetsNext == \/ CreateStorage
              \/ \E u \in Uploads : Put(u) \/ AdvancePut(u) \/ Abort(u) \/ Fail(u)
              \/ \E r \in Readers : ReadContent(r) \/ \E p \in Paths : Get(r, p)
              \/ \E p \in Paths : Delete(p) \/ Erase(p)

OctetsSpec == OctetsInit /\ [][OctetsNext]_octetVars
(* Clients send what they have; files are written and removed.             *)
OctetsFairSpec == /\ OctetsSpec
                  /\ \A u \in Uploads : WF_octetVars(AdvancePut(u))
                  /\ \A p \in Paths : WF_octetVars(Erase(p))
----------------------------------------------------------------------------
(* Properties *)

OctetsTyped ==
    /\ provider \in Providers \cup {None}
    /\ \A p \in Paths : /\ blob[p] = None \/ blob[p] \in [by : Uploads, size : 0..MaxSize]
                        /\ meta[p] = None \/ (meta[p].by \in Uploads /\ meta[p].size \in 1..MaxSize)
                        /\ deleting[p] = None \/ deleting[p] \subseteq {"blob", "meta"}
    /\ \A u \in Uploads :
         /\ put[u].phase \in {"none", "streaming", "committing", "done", "refused", "threw"}
         /\ put[u].scanner.position <= put[u].scanner.size /\ put[u].scanner.position <= Header

(* What is read under a path is what its entry describes, whole, unless it *)
(* is being deleted or its id has been given to another upload.            *)
Undisturbed(path) == /\ deleting[path] = None
                     /\ Cardinality({u \in Uploads : put[u].path = path}) = 1
ReadsWhole ==
    \A r \in Readers : get[r].phase \in {"done", "broken"} /\ Undisturbed(get[r].path) =>
        /\ get[r].phase = "done" /\ get[r].content # None
        /\ get[r].entry.by = get[r].content.by /\ get[r].entry.size = get[r].content.size

(* An entry is of an acceptable type, and of the claimed one if the claim  *)
(* is a type, provided that the stream fills the header.                   *)
TypesKept ==
    \A p \in Paths : meta[p] # None /\ meta[p].size >= Header =>
        LET s == put[meta[p].by].scanner
        IN  /\ s.accept # None /\ (s.claim # None \/ s.signature # None) => meta[p].type \in s.accept
            /\ s.claim \notin {None, "octet"} => meta[p].type = s.claim

(* An upload that failed has left no entry. *)
RefusedStoresNothing ==
    \A u \in Uploads, p \in Paths :
        put[u].phase \in {"refused", "threw"} => meta[p] = None \/ meta[p].by # u

(* octets.md: `limit` is the maximum size of the incoming stream.          *)
LimitKept == \A p \in Paths : meta[p] # None => meta[p].size <= Limit

(* A deleted entry is gone, with its content, unless it is put again.      *)
Deletes ==
    \A p \in Paths :
        LET putting == \E u \in Uploads : put[u].path = p /\ put[u].phase \in {"streaming", "committing"}
        IN  deleting[p] = {"blob", "meta"} /\ ~putting ~> (meta[p] = None /\ blob[p] = None) \/ putting

(* Every upload ends unless its client breaks the connection.              *)
UploadsEnd ==
    \A u \in Uploads : put[u].phase = "streaming"
                       ~> put[u].phase \in {"done", "refused", "threw"} \/ put[u].aborted

(* What is stored is whole and of its type, or not stored at all, however   *)
(* uploads, downloads and deletions of one path meet (Storage.ts, Scanner). *)
OctetsWhole == OctetsTyped /\ ReadsWhole /\ TypesKept /\ RefusedStoresNothing

(* Uploads and deletions come to an end (Storage.ts).                *)
OctetsEnd == Deletes /\ UploadsEnd
============================================================================
