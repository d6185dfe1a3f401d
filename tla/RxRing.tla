------------------------------- MODULE RxRing -------------------------------
(***************************************************************************)
(* The receive ring between the UART1 interrupt and the application task:   *)
(* uart_receive_input (mcu_api.c) stores a byte, with_data_rxbuff and       *)
(* take_byte_rxbuff (system.c) read one.  Both pointers may rest one past   *)
(* the end of the array and wrap on their next use.  The interrupt may come *)
(* between any two of the task's accesses to the pointers.  *rx_buf_out++   *)
(* is one access: the pointer is taken to be stored before the byte is      *)
(* loaded, and then the interrupt cannot reach the slot in between.         *)
(*                                                                          *)
(* A byte is represented by the number of its arrival, 1, 2, ...; 0 is what *)
(* a slot holds before it is first written.                                 *)
(***************************************************************************)
EXTENDS Naturals

CONSTANTS
    N,        \* sizeof(wifi_uart_rx_buf), 23 in the code
    MaxBytes  \* bound of the model: bytes that arrive

ASSUME NAssumption == N \in Nat \ {0, 1}
ASSUME MaxBytesAssumption == MaxBytes \in Nat

VARIABLES
    buf,      \* wifi_uart_rx_buf
    in,       \* rx_buf_in - wifi_uart_rx_buf
    out,      \* rx_buf_out - wifi_uart_rx_buf
    pc,       \* where the task is: "check", "take", "wrap" or "read"
    arrived,  \* bytes that have arrived on the wire
    stored,   \* the last byte the interrupt stored
    last      \* the last byte the task has taken

ringVars == <<buf, in, out, pc, arrived, stored, last>>

RingInit ==
    /\ buf = [i \in 0..N-1 |-> 0]
    /\ in = 0
    /\ out = 0
    /\ pc = "check"
    /\ arrived = 0
    /\ stored = 0
    /\ last = 0

-----------------------------------------------------------------------------
\* A pointer at the end of the array wraps before it is used.
Wrapped(p) == IF p >= N THEN 0 ELSE p

\* The two tests of uart_receive_input for a full ring.
Full == \/ out = in + 1
        \/ in > out /\ in - out >= N

\* UART1_Handler: a byte arrives and is stored, or dropped by a full ring.
Receive ==
    /\ arrived < MaxBytes
    /\ arrived' = arrived + 1
    /\ IF Full
       THEN UNCHANGED <<buf, in, stored>>
       ELSE /\ buf' = [buf EXCEPT ![Wrapped(in)] = arrived + 1]
            /\ in' = Wrapped(in) + 1
            /\ stored' = arrived + 1
    /\ UNCHANGED <<out, pc, last>>

\* with_data_rxbuff.
WithData ==
    /\ pc = "check"
    /\ in # out
    /\ pc' = "take"
    /\ UNCHANGED <<buf, in, out, arrived, stored, last>>

\* The test of take_byte_rxbuff repeats it: the interrupt may have come between
\* the two and made the pointers equal.
TakeSome ==
    /\ pc = "take"
    /\ in # out
    /\ pc' = "wrap"
    /\ UNCHANGED <<buf, in, out, arrived, stored, last>>

\* Then the local variable is returned as it is, and no pointer moves.
TakeNothing ==
    /\ pc = "take"
    /\ in = out
    /\ pc' = "check"
    /\ UNCHANGED <<buf, in, out, arrived, stored, last>>

\* Mutant of WrapOut: the end is tested for one slot too late.
WrapOutLate ==
    /\ pc = "wrap"
    /\ out' = IF out >= N THEN 1 ELSE out
    /\ pc' = "read"
    /\ UNCHANGED <<buf, in, arrived, stored, last>>

WrapOut ==
    /\ pc = "wrap"
    /\ out' = Wrapped(out)
    /\ pc' = "read"
    /\ UNCHANGED <<buf, in, arrived, stored, last>>

\* value = *rx_buf_out++.
TakeByte ==
    /\ pc = "read"
    /\ last' = buf[out]
    /\ out' = out + 1
    /\ pc' = "check"
    /\ UNCHANGED <<buf, in, arrived, stored>>

Take == WithData \/ TakeSome \/ TakeNothing \/ WrapOut \/ TakeByte

RingNext == Receive \/ Take

\* The ring alone: a task that takes bytes whenever there are any.
RingSpec == RingInit /\ [][RingNext]_ringVars

-----------------------------------------------------------------------------
RingTypeOK ==
    /\ buf \in [0..N-1 -> 0..MaxBytes]
    /\ in \in 0..N
    /\ out \in 0..N
    /\ pc \in {"check", "take", "wrap", "read"}
    /\ pc = "read" => out < N
    /\ arrived \in 0..MaxBytes
    /\ stored \in 0..MaxBytes
    /\ last \in 0..MaxBytes

\* mcu_api.c:609-625, system.c:775-803.  However the interrupt falls between
\* the task's accesses, the bytes the task reads are bytes that arrived, each
\* at most once and in the order of their arrival: drops leave gaps, never
\* repeats or stale slots.  It is given a byte that never arrived only when a
\* whole ring of bytes it has not taken is about to be forgotten.
TakenInOrder ==
    [][/\ pc = "read" /\ pc' = "check" => last < last' /\ last' <= arrived
       /\ pc = "take" /\ pc' = "check" => \A i \in 0..N-1 : last < buf[i]]_ringVars

\* tuya/system.c:770-781, the comment "whether there is data in the receive
\* buffer".  When the task is told there is none, it has taken the last byte
\* the interrupt stored.
NoDataMeansTaken == pc = "check" /\ in = out => last = stored
=============================================================================
