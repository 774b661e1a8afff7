---------------------------- MODULE LimitedRead ----------------------------
(***************************************************************************)
(* How a message of unknown size is read into memory: flate.go under the   *)
(* redirect binding of both parties, and the bodies of the HTTP answers    *)
(* that handleArtifactRequest (service_provider.go) and FetchMetadata      *)
(* (samlsp/fetch_metadata.go) read.                                        *)
(*                                                                         *)
(* Bytes are only counted.  compress/flate, io.LimitReader and io.ReadAll  *)
(* are external: a Read returns some of what is left, and reports the end  *)
(* with the last bytes or after them.                                      *)
(***************************************************************************)
EXTENDS Naturals

CONSTANTS
    Limit,          \* flateUncompressLimit
    MaxSize,        \* maxAuthnRequestSize, maxArtifactResponseSize, maxMetadataSize
    Sizes,          \* sizes of messages
    Buffers         \* sizes of the buffers with which io.ReadAll reads

ASSUME LimitAssumption ==
    /\ Limit \in Nat /\ MaxSize \in Nat /\ MaxSize < Limit
    /\ Sizes \subseteq Nat /\ Buffers \subseteq Nat \ {0}

\* Who reads: ServiceProvider a LogoutResponse and IdentityProvider a request, both
\* inflated; handleArtifactRequest and FetchMetadata an HTTP answer.
Readers == {"logout", "request", "artifact", "metadata"}
Inflates(reader) == reader \in {"logout", "request"}
OverHTTP(reader) == reader \in {"artifact", "metadata"}

\* An io.LimitReader is around the reader.
Capped(reader) == reader # "logout"

\* The status of an HTTP answer, or that there is none: httpClient.Do fails.
NoAnswer == 0
Statuses == {NoAnswer, 200, 302, 404}

VARIABLES
    reader,     \* who reads
    message,    \* its size, whether it breaks off, the HTTP status, whether time is limited
    state,      \* "waiting", "reading", "ended", "accepted" or "error"
    got,        \* length of what io.ReadAll has
    count       \* saferFlateReader.count

vars == <<reader, message, state, got, count>>

Init ==
    /\ reader \in Readers
    /\ message \in [size: Sizes, broken: BOOLEAN, status: Statuses, timeout: BOOLEAN]
    /\ ~OverHTTP(reader) => message.status = 200 /\ ~message.timeout
    /\ state = IF OverHTTP(reader) THEN "waiting" ELSE "reading"
    /\ got = 0
    /\ count = 0

\* httpClient.Do: an error, or the answer's header, which is looked at.
Do ==
    /\ state = "waiting"
    /\ state' = IF \/ message.status = NoAnswer
                   \/ reader = "artifact" /\ message.status # 200
                   \/ reader = "metadata" /\ message.status >= 400
                THEN "error" ELSE "reading"
    /\ UNCHANGED <<reader, message, got, count>>

\* Mutant of Timeout: it does not cover the body.
MutantTimeout ==
    /\ message.timeout
    /\ state = "waiting"
    /\ state' = "error"
    /\ UNCHANGED <<reader, message, got, count>>

\* http.Client.Timeout, which runs until the body is read: of the client that is used
\* by default, or of the application's.
Timeout ==
    /\ message.timeout
    /\ state \in {"waiting", "reading"}
    /\ state' = "error"
    /\ UNCHANGED <<reader, message, got, count>>

-----------------------------------------------------------------------------
\* What io.LimitReader leaves of a buffer of p bytes.
Remaining(p) ==
    IF Capped(reader) /\ MaxSize + 1 - got < p THEN MaxSize + 1 - got ELSE p

\* saferFlateReader.Read refuses a buffer that could take the count over the limit.
Exceeds(p) == Inflates(reader) /\ count + p > Limit

\* LimitReader reports the end once its bytes are used up.
ReadEnd ==
    /\ state = "reading"
    /\ Remaining(1) = 0
    /\ state' = "ended"
    /\ UNCHANGED <<reader, message, got, count>>

ReadExceeded(p) ==
    /\ state = "reading"
    /\ Remaining(p) > 0 /\ Exceeds(Remaining(p))
    /\ state' = "error"
    /\ UNCHANGED <<reader, message, got, count>>

\* The message gives n bytes, and with its last ones or after them the end, or an
\* error if it breaks off.
ReadSome(p, n, end) ==
    /\ state = "reading"
    /\ Remaining(p) > 0 /\ ~Exceeds(Remaining(p))
    /\ n <= Remaining(p) /\ got + n <= message.size
    /\ end => got + n = message.size
    /\ n = 0 => end
    /\ got' = got + n
    /\ count' = IF Inflates(reader) THEN count + n ELSE count
    /\ state' = IF ~end THEN "reading" ELSE IF message.broken THEN "error" ELSE "ended"
    /\ UNCHANGED <<reader, message>>

Read ==
    \/ ReadEnd
    \/ \E p \in Buffers :
         \/ ReadExceeded(p)
         \/ \E n \in 0..p, end \in BOOLEAN : ReadSome(p, n, end)

\* Mutant of Check: a message at the limit is not told from a longer one.
MutantCheck ==
    /\ state = "ended"
    /\ state' = IF Capped(reader) /\ got > MaxSize + 1 THEN "error" ELSE "accepted"
    /\ UNCHANGED <<reader, message, got, count>>

\* After io.ReadAll: a message of more than MaxSize is refused.
Check ==
    /\ state = "ended"
    /\ state' = IF Capped(reader) /\ got > MaxSize THEN "error" ELSE "accepted"
    /\ UNCHANGED <<reader, message, got, count>>

Done == state \in {"accepted", "error"} /\ UNCHANGED vars

Next == Do \/ Timeout \/ Read \/ Check \/ Done

\* The process reads on from what it has in memory, and its timers fire; another
\* party's answer need not come.
Fairness ==
    /\ WF_vars(Read /\ ~OverHTTP(reader))
    /\ WF_vars(Check)
    /\ WF_vars(Timeout)

Spec == Init /\ [][Next]_vars /\ Fairness

-----------------------------------------------------------------------------
\* Properties.

\* Whatever a message inflates to, no more than a byte above the reader's limit is
\* kept in memory while it is read.
MemoryBounded == got <= IF reader = "logout" THEN Limit ELSE MaxSize + 1

\* A whole message within the limit of a reader with a size of its own is refused for
\* nothing but the time or the answer it did not get: the limit of flate.go does not get
\* in its way.
RefusedForCause ==
    state = "error" /\ Capped(reader) =>
       \/ message.size > MaxSize \/ message.broken
       \/ message.timeout \/ message.status # 200

\* A message is passed on to a parser whole or not at all: nothing was cut off at a
\* limit or where it broke off, and it is not longer than its reader's limit.  Memory is
\* bounded meanwhile, and what is refused is refused for a cause (saferFlateReader,
\* checkAuthnRequestSize, handleArtifactRequest, FetchMetadata).
WholeOrRefused ==
    /\ state = "accepted" => /\ got = message.size /\ ~message.broken
                             /\ got <= IF Capped(reader) THEN MaxSize ELSE Limit
    /\ MemoryBounded
    /\ RefusedForCause

\* A read ends: by itself from memory, and by the timeout of an HTTP client that has one.
ReadsEnd ==
    ~OverHTTP(reader) \/ message.timeout ~> state \in {"accepted", "error"}
=============================================================================
