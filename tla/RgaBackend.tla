----------------------------- MODULE RgaBackend -----------------------------
(***************************************************************************)
(* The shared RGA backend (gstmpprgabackend.c), its table of conversion    *)
(* tuples (gstmpprgatuple.c) and the converters' caches of imported        *)
(* handles (gstrgaconvert.c).  Every element of the process submits        *)
(* through one backend; begin and finish take its lock, the native call    *)
(* between them does not, so what one thread learns meets what another     *)
(* has under way.  An import is looked up by a descriptor number, which    *)
(* the process reuses, and leased until the frame that uses it is freed,   *)
(* by whatever thread frees it.                                            *)
(***************************************************************************)
EXTENDS Naturals, Sequences, FiniteSets, SequencesExt

CONSTANTS
  Users,       \* elements that submit, one streaming thread each
  Caching,     \* those with GST_MPP_RGA_HANDLE_CACHE=1
  Keys,        \* tuples: an operation and two formats
  Threshold,   \* GST_MPP_RGA_DEMOTION_THRESHOLD
  Retry,       \* GST_MPP_RGA_RETRY_INTERVAL
  CacheMax,    \* GST_RGA_HANDLE_CACHE_MAX
  Fds,         \* descriptor numbers
  Idents,      \* buffers behind them: device, inode, size and geometry
  FrameIds     \* bound: asynchronous frames alive at a time

ASSUME UsersAssumption == IsFiniteSet(Users) /\ Caching \subseteq Users
ASSUME TableAssumption == Threshold \in Nat \ {0} /\ Retry \in Nat
ASSUME CacheAssumption == CacheMax \in Nat /\ IsFiniteSet(FrameIds)
ASSUME NoneAssumption == "none" \notin FrameIds /\ "none" \notin Users

VARIABLES
  dev,      \* backend->initialized, backend->available
  tuples,   \* backend->tuples
  cache,    \* self->imports of each user, least recently used first
  call,     \* what a user's thread is doing
  frames,   \* asynchronous frames: the leases they hold, the job they wait for
  behind,   \* external: the buffer behind a descriptor
  gone,     \* users that were finalized
  failed,   \* history: failures of a tuple that finished since its last success
  denied    \* history: submissions of a tuple refused since one was tried

vars == <<dev, tuples, cache, call, frames, behind, gone, failed, denied>>

NoLease == 0
NoCall == [at |-> "idle", key |-> "none", leases |-> <<>>, fds |-> <<>>, frame |-> "none", result |-> "none"]
NoFrame == [user |-> "none", leases |-> <<>>, fds |-> <<>>, busy |-> FALSE]

Init ==
  /\ dev = [initialized |-> FALSE, available |-> FALSE]
  /\ tuples = [k \in Keys |-> [failures |-> 0, skipped |-> 0, demoted |-> FALSE]]
  /\ cache = [u \in Users |-> <<>>]
  /\ call = [u \in Users |-> NoCall]
  /\ frames = [i \in FrameIds |-> NoFrame]
  /\ behind \in [Fds -> Idents]
  /\ gone = {}
  /\ failed = [k \in Keys |-> 0] /\ denied = [k \in Keys |-> 0]

-----------------------------------------------------------------------------
(* The tuple table *)

\* Mutant of TupleTried: one refusal more than the interval.
TriedLate(t) == ~t.demoted \/ t.skipped > Retry

TupleTried(t) == ~t.demoted \/ t.skipped >= Retry

ShouldTry(t) == [t EXCEPT !.skipped = IF TupleTried(t) THEN 0 ELSE @ + 1]

TupleSucceeded(t) == [t EXCEPT !.failures = 0, !.demoted = FALSE]

\* The count of a demoted tuple goes on; the model holds it at one above.
TupleFailed(t) ==
  IF ~t.demoted /\ t.failures + 1 >= Threshold
  THEN [failures |-> Threshold, demoted |-> TRUE, skipped |-> 0]
  ELSE [t EXCEPT !.failures = IF @ > Threshold THEN @ ELSE @ + 1]

-----------------------------------------------------------------------------
(* The handle cache: an entry imports the buffer it found under a number *)

IdleAt(q, i) == q[i].users = 0

\* Mutant of Cleared: what is busy is freed with the rest.
ClearedBusy(q) == <<>>

Busy(q) == {i \in DOMAIN q : ~IdleAt(q, i)}

\* The place in q of the nth that is busy.
NthBusy(q, n) == CHOOSE i \in Busy(q) : Cardinality({j \in Busy(q) : j < i}) = n - 1

\* gst_rga_convert_clear_imports_locked: what is busy stays, to be used no more.
Cleared(q) == [n \in 1..Cardinality(Busy(q)) |-> [q[NthBusy(q, n)] EXCEPT !.retired = TRUE]]

Count(ids, id) == Cardinality({j \in DOMAIN ids : ids[j] = id})

Put(q, ids) == [i \in DOMAIN q |-> [q[i] EXCEPT !.users = @ - Count(ids, q[i].id)]]

\* Mutant of Hits: the number alone is compared.
HitsByFd(q, fd) == {i \in DOMAIN q : q[i].fd = fd /\ ~q[i].retired}

Hits(q, fd) == {i \in DOMAIN q : q[i].fd = fd /\ ~q[i].retired /\ q[i].ident = behind[fd]}

RetireFd(q, fd) == [i \in DOMAIN q |-> [q[i] EXCEPT !.retired = @ \/ q[i].fd = fd]]

\* The entry to make room with: the last idle retired one, else the first idle.
Victims(q) == LET idle == {i \in DOMAIN q : IdleAt(q, i)}
                  old == {i \in idle : q[i].retired}
              IN IF old # {} THEN {CHOOSE i \in old : \A j \in old : j <= i}
                 ELSE IF idle # {} /\ Len(q) = CacheMax
                 THEN {CHOOSE i \in idle : \A j \in idle : i <= j} ELSE {}

FreeId(q) == CHOOSE n \in 1..CacheMax : \A i \in DOMAIN q : q[i].id # n

\* gst_rga_convert_import_locked: the cache it leaves and the lease it gives;
\* works says that the library takes the import.
Import(q, fd, works) ==
  IF Hits(q, fd) # {}
  THEN LET i == CHOOSE i \in Hits(q, fd) : TRUE
       IN [q |-> Append(RemoveAt(q, i), [q[i] EXCEPT !.users = @ + 1]), id |-> q[i].id]
  ELSE LET stale == RetireFd(q, fd)
           room == IF Victims(stale) = {} THEN stale
                   ELSE RemoveAt(stale, CHOOSE i \in Victims(stale) : TRUE)
           id == FreeId(room)
       IN IF Len(room) = CacheMax \/ ~works THEN [q |-> room, id |-> NoLease]
          ELSE [q |-> Append(room, [id |-> id, fd |-> fd, ident |-> behind[fd],
                                    users |-> 1, retired |-> FALSE]),
                id |-> id]

-----------------------------------------------------------------------------
(* A submission: import under the element's lock, begin under the          *)
(* backend's, the native call, finish, and the leases' end                 *)

\* A converter imports source and destination, for a synchronous call or for
\* a frame of its own.
EnterCaching(u) ==
  /\ \E src \in Fds : \E dst \in Fds \ {src}, works \in BOOLEAN,
        f \in {"none"} \cup {i \in FrameIds : frames[i] = NoFrame} :
       LET in == Import(cache[u], src, works)
           out == Import(in.q, dst, works)
           ids == <<in.id, out.id>>
       IN /\ cache' = [cache EXCEPT ![u] = out.q]
          /\ \E k \in Keys :
               call' = [call EXCEPT ![u] = [NoCall EXCEPT !.at = "entered", !.key = k, !.leases = ids,
                                                          !.fds = <<src, dst>>, !.frame = f]]
          /\ frames' = [i \in FrameIds |-> IF i # f THEN frames[i]
                          ELSE [user |-> u, leases |-> ids, fds |-> <<src, dst>>, busy |-> FALSE]]

\* The others pass descriptors.
EnterPlain(u) ==
  /\ \E k \in Keys : call' = [call EXCEPT ![u] = [NoCall EXCEPT !.at = "entered", !.key = k]]
  /\ UNCHANGED <<cache, frames>>

Enter(u) ==
  /\ call[u].at = "idle" /\ u \notin gone
  /\ IF u \in Caching THEN EnterCaching(u) ELSE EnterPlain(u)
  /\ UNCHANGED <<dev, tuples, behind, gone, failed, denied>>

\* Handles are used when both imports gave one, descriptors otherwise.
Handles(u) == IF NoLease \in Range(call[u].leases) THEN <<>> ELSE call[u].leases

To(u, at, r) == call' = [call EXCEPT ![u].at = at, ![u].result = r]

\* The first to come probes the device; one that failed is never probed again.
Probe ==
  /\ ~dev.initialized
  /\ \E works \in BOOLEAN : dev' = [initialized |-> TRUE, available |-> works]
  /\ UNCHANGED <<tuples, cache, call, frames, behind, gone, failed, denied>>

Begin(u) ==
  /\ call[u].at = "entered" /\ dev.initialized
  /\ LET k == call[u].key IN
     IF ~dev.available THEN To(u, "over", "unavailable") /\ UNCHANGED <<tuples, denied>>
     ELSE /\ tuples' = [tuples EXCEPT ![k] = ShouldTry(@)]
          /\ IF TupleTried(tuples[k])
             THEN To(u, "native", "none") /\ denied' = [denied EXCEPT ![k] = 0]
             ELSE To(u, "over", "demoted") /\ denied' = [denied EXCEPT ![k] = @ + 1]
  /\ UNCHANGED <<dev, cache, frames, behind, gone, failed>>

\* What the native call may come back with: started says a job was.
Outcomes == {"ok", "fail", "unsupported", "nodev"}

Result(r) == CASE r = "ok" -> "success" [] r = "nodev" -> "lost"
               [] r = "unsupported" -> "unsupported" [] OTHER -> "failed"

Finish(u) ==
  /\ call[u].at = "native"
  /\ \E r \in Outcomes, started \in BOOLEAN :
       LET k == call[u].key IN
       /\ r = "ok" => started
       /\ started /\ r # "ok" => call[u].frame # "none"
       /\ CASE r = "ok" -> /\ tuples' = [tuples EXCEPT ![k] = TupleSucceeded(@)]
                           /\ failed' = [failed EXCEPT ![k] = 0]
                           /\ UNCHANGED dev
            [] r = "nodev" -> dev' = [dev EXCEPT !.available = FALSE] /\ UNCHANGED <<tuples, failed>>
            [] OTHER -> /\ tuples' = [tuples EXCEPT ![k] = TupleFailed(@)]
                        /\ failed' = [failed EXCEPT ![k] = IF @ > Threshold THEN @ ELSE @ + 1]
                        /\ UNCHANGED dev
       /\ To(u, "over", Result(r))
       /\ frames' = IF call[u].frame = "none" THEN frames
                    ELSE [frames EXCEPT ![call[u].frame].busy = started]
  /\ UNCHANGED <<cache, behind, gone, denied>>

\* A synchronous call gives its leases back; the frame of an asynchronous one
\* keeps them.  A lost device takes every import with it.
Settle(u) ==
  /\ call[u].at = "over"
  /\ LET q == IF call[u].frame = "none" THEN Put(cache[u], call[u].leases) ELSE cache[u]
     IN cache' = [cache EXCEPT ![u] = IF call[u].result = "lost" THEN Cleared(q) ELSE q]
  /\ call' = [call EXCEPT ![u] = NoCall]
  /\ UNCHANGED <<dev, tuples, frames, behind, gone, failed, denied>>

InCall(i) == \E u \in Users : call[u].frame = i

\* The last reference to a frame goes, in the element or in the reaper.
FrameFreed ==
  /\ \E i \in FrameIds :
       /\ frames[i] # NoFrame /\ ~frames[i].busy /\ ~InCall(i)
       /\ cache' = [cache EXCEPT ![frames[i].user] = Put(@, frames[i].leases)]
       /\ frames' = [frames EXCEPT ![i] = NoFrame]
  /\ UNCHANGED <<dev, tuples, call, behind, gone, failed, denied>>

JobEnds ==
  /\ \E i \in FrameIds : frames[i].busy /\ frames' = [frames EXCEPT ![i].busy = FALSE]
  /\ UNCHANGED <<dev, tuples, cache, call, behind, gone, failed, denied>>

\* set_caps, and the end of stop, which frames that escaped to the reaper outlive.
ClearImports(u) ==
  /\ call[u].at = "idle" /\ u \in Caching /\ u \notin gone
  /\ cache' = [cache EXCEPT ![u] = Cleared(@)]
  /\ gone' \in {gone, gone \cup {u}}
  /\ UNCHANGED <<dev, tuples, call, frames, behind, failed, denied>>

\* A descriptor nobody holds is closed and its number given to another buffer.
Recycle ==
  /\ \E fd \in Fds, n \in Idents :
       /\ \A u \in Users : fd \notin Range(call[u].fds)
       /\ \A i \in FrameIds : fd \notin Range(frames[i].fds)
       /\ n # behind[fd]
       /\ behind' = [behind EXCEPT ![fd] = n]
  /\ UNCHANGED <<dev, tuples, cache, call, frames, gone, failed, denied>>

Next == \/ Probe \/ FrameFreed \/ JobEnds \/ Recycle
        \/ \E u \in Users : Enter(u) \/ Begin(u) \/ Finish(u) \/ Settle(u) \/ ClearImports(u)

Spec == Init /\ [][Next]_vars

-----------------------------------------------------------------------------
(* Properties *)

Entries == [id : 1..CacheMax, fd : Fds, ident : Idents, users : 0..(2 * Cardinality(FrameIds) + 2),
            retired : BOOLEAN]

\* Types; the cache never outgrows its bound, whatever its leases keep in it,
\* and has one entry at most to hand out for a number.
TypeOK ==
  /\ dev \in [initialized : BOOLEAN, available : BOOLEAN]
  /\ tuples \in [Keys -> [failures : 0..Threshold + 1, skipped : 0..Retry, demoted : BOOLEAN]]
  /\ \A u \in Users :
       /\ Len(cache[u]) <= CacheMax /\ Range(cache[u]) \subseteq Entries
       /\ \A i, j \in DOMAIN cache[u] : cache[u][i].fd = cache[u][j].fd /\ i # j =>
            cache[u][i].retired \/ cache[u][j].retired

FrameLeases(u, id) ==
  {p \in FrameIds \X {1, 2} : LET f == frames[p[1]] IN
     f.user = u /\ p[2] \in DOMAIN f.leases /\ f.leases[p[2]] = id}

Leased(u, id) == (IF call[u].frame = "none" THEN Count(call[u].leases, id) ELSE 0)
                 + Cardinality(FrameLeases(u, id))

\* The users of an entry are its leases, wherever they are: none is dropped
\* twice, none forgotten, and an entry is freed only without one.
LeasesCounted ==
  \A u \in Users :
    /\ \A i \in DOMAIN cache[u] : cache[u][i].users = Leased(u, cache[u][i].id)
    /\ \A id \in 1..CacheMax : Leased(u, id) > 0 => \E i \in DOMAIN cache[u] : cache[u][i].id = id

\* A handle given to the library is the import of the buffer that is behind
\* the descriptor now, also when the number was another buffer's before.
HandleCurrent ==
  \A u \in Users : call[u].at = "native" =>
    \A j \in DOMAIN Handles(u) :
      \E i \in DOMAIN cache[u] : /\ cache[u][i].id = Handles(u)[j]
                                 /\ cache[u][i].fd = call[u].fds[j]
                                 /\ cache[u][i].ident = behind[call[u].fds[j]]

\* What the library is given through the cache is right, and what it was given
\* is kept for as long as it is used: cached imports are as good as fresh ones.
LeasesExact == TypeOK /\ LeasesCounted /\ HandleCurrent

\* A tuple is refused only after Threshold failures with no success since, and
\* seldom in a row: Retry times, and Retry more for each time that one success
\* and Threshold failures of submissions still under way demote it anew.  Each
\* of those was begun before the first refusal, by a user other than the refused.
Rounds == 1 + (Cardinality(Users) - 1) \div (Threshold + 1)

RefusalsBounded ==
  \A k \in Keys : /\ denied[k] <= Retry * Rounds
                  /\ tuples[k].demoted => failed[k] >= Threshold
=============================================================================
