---------------------------- MODULE RateLimiter ----------------------------
(***************************************************************************)
(* class RateLimiter of src/novadbplus/utils/rate_limiter.h: a rocksdb     *)
(* GenericRateLimiter and a copy of its rate.  The class has no mutex: the *)
(* migration and binlog senders call Request while a CONFIG SET changes    *)
(* the rate with SetBytesPerSecond.  Every access to _bytesPerSecond and   *)
(* every call of the rocksdb limiter (which locks itself) is one step.     *)
(* The limiter itself is outside the sources: of it the model has the rate *)
(* and the bytes of one refill, rate div Period, without a lower bound.    *)
(***************************************************************************)
EXTENDS Integers

CONSTANTS
    Threads,    \* the threads that call the limiter
    Rates,      \* the rates SetBytesPerSecond is called with
    Period,     \* refill periods per second of the rocksdb limiter
    MaxBytes    \* the largest request

ASSUME /\ Rates \subseteq Nat
       /\ Period \in Nat \ {0}
       /\ MaxBytes \in Nat

VARIABLES
    bytesPerSecond,     \* _bytesPerSecond
    limiterRate,        \* the rate inside *_rateLimiter
    call,               \* call[t]: the member function t is in, its locals
    lastChunk           \* lastChunk[t]: size of its last request to the
                        \* limiter and the single burst at that moment

vars == <<bytesPerSecond, limiterRate, call, lastChunk>>

\* rocksdb::RateLimiter::GetSingleBurstBytes: the bytes of one refill.
SingleBurst(rate) == rate \div Period

Idle == [op |-> "idle"]

Init ==
    /\ bytesPerSecond \in Rates
    /\ limiterRate = bytesPerSecond
    /\ call = [t \in Threads |-> Idle]
    /\ lastChunk = [t \in Threads |-> [size |-> 0, burst |-> 0]]

-----------------------------------------------------------------------------
\* The loop of Request without std::min: left runs below zero.
Rsize_NoMin(left, singleBurst) == singleBurst

-----------------------------------------------------------------------------
\* if (bytesPerSecond != 0 && bytesPerSecond != _bytesPerSecond)
Accepts(rate) == rate # 0 /\ rate # bytesPerSecond

\* std::min(left, singleBurst)
Rsize(left, singleBurst) == IF left < singleBurst THEN left ELSE singleBurst

\* left -= rsize
LeftAfter(left, rsize) == left - rsize

\* SetBytesPerSecond up to its test: the call returns at once when the
\* test fails.
SetCheck(t, rate) ==
    /\ call[t] = Idle
    /\ IF Accepts(rate)
       THEN call' = [call EXCEPT ![t] = [op |-> "set", rate |-> rate,
                                         stored |-> FALSE]]
       ELSE UNCHANGED call
    /\ UNCHANGED <<bytesPerSecond, limiterRate, lastChunk>>

\* _rateLimiter->SetBytesPerSecond(bytesPerSecond)
SetLimiter(t) ==
    /\ call[t].op = "set" /\ ~call[t].stored
    /\ limiterRate' = call[t].rate
    /\ call' = [call EXCEPT ![t].stored = TRUE]
    /\ UNCHANGED <<bytesPerSecond, lastChunk>>

\* _bytesPerSecond = bytesPerSecond
SetField(t) ==
    /\ call[t].op = "set" /\ call[t].stored
    /\ bytesPerSecond' = call[t].rate
    /\ call' = [call EXCEPT ![t] = Idle]
    /\ UNCHANGED <<limiterRate, lastChunk>>

\* Request(bytes) up to its loop: singleBurst is read once.
RequestBegin(t, bytes) ==
    /\ call[t] = Idle
    /\ call' = [call EXCEPT ![t] =
                   IF bytes = 0 THEN Idle
                   ELSE [op |-> "request", left |-> bytes,
                         singleBurst |-> SingleBurst(limiterRate)]]
    /\ UNCHANGED <<bytesPerSecond, limiterRate, lastChunk>>

\* One turn of the loop: _rateLimiter->Request(min(left, singleBurst)).
\* A turn that requests nothing changes nothing: the loop spins.
RequestChunk(t) ==
    /\ call[t].op = "request"
    /\ call[t].left > 0
    /\ LET rsize == Rsize(call[t].left, call[t].singleBurst)
           left  == LeftAfter(call[t].left, rsize)
       IN  /\ lastChunk' = [lastChunk EXCEPT ![t] =
                               [size |-> rsize,
                                burst |-> SingleBurst(limiterRate)]]
           /\ call' = [call EXCEPT ![t] =
                          IF left = 0 THEN Idle ELSE [@ EXCEPT !.left = left]]
    /\ UNCHANGED <<bytesPerSecond, limiterRate>>

Next ==
    \E t \in Threads :
        \/ \E rate \in Rates : SetCheck(t, rate)
        \/ SetLimiter(t)
        \/ SetField(t)
        \/ \E bytes \in 0 .. MaxBytes : RequestBegin(t, bytes)
        \/ RequestChunk(t)

Spec == Init /\ [][Next]_vars

-----------------------------------------------------------------------------
\* The variables have the values their declarations allow: left of
\* Request is an unsigned number that only falls.
TypeOK ==
    /\ bytesPerSecond \in Rates
    /\ limiterRate \in Rates
    /\ \A t \in Threads :
          \/ call[t] = Idle
          \/ call[t] \in [op : {"set"}, rate : Rates, stored : BOOLEAN]
          \/ call[t] \in [op : {"request"}, left : 1 .. MaxBytes,
                          singleBurst : Nat]

\* The comment in Request: "request size for GenericRateLimiter::Request()
\* must be less than _rateLimiter->GetSingleBurstBytes()".
RequestWithinBurst ==
    \A t \in Threads : lastChunk[t].size <= lastChunk[t].burst

=============================================================================
