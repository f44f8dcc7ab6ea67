------------------------------ MODULE Keyboard ------------------------------
(***************************************************************************)
(* The keyboard: the interrupt handler and keyboard_read of                *)
(* src/kernel/keyboard.c with the queue of src/lib/fifo.c between them and *)
(* the lock of Mutex.tla around the reader.                                *)
(*                                                                         *)
(* A reader is at "held" in the loop of keyboard_read, at "device" when it *)
(* waits for a key.  A key is <<c, e>>: its make code and whether it is    *)
(* one of the extended keys, which send E0 first.  The character of code c *)
(* in column s of keymap is <<c, s>>.                                      *)
(***************************************************************************)
EXTENDS Mutex

CONSTANTS
    Key,        \* the keys of the keyboard: <<make code, extended>>
    Visible,    \* the characters that are not INV
    Length,     \* BUFFER_SIZE
    MaxCount,   \* bound: characters of one read
    MaxPort,    \* bound: bytes that wait in the keyboard controller
    QuietLeds   \* no key moves while the press of a lock key waits there

Code == {k[1] : k \in Key}

ASSUME KeyboardAssumption ==
    /\ Key \subseteq Code \X BOOLEAN
    /\ Visible \subseteq Code \X {0, 1}
    /\ Length \in Nat \ {0, 1}
    /\ MaxCount \in Nat \ {0} /\ MaxPort \in Nat
    /\ QuietLeds \in BOOLEAN

E0 == <<"E0">>
INV == <<"INV">>
Byte == {E0} \cup {<<c, up>> : c \in Code, up \in BOOLEAN}
Position == 0..(Length - 1)

VARIABLES
    waiter,         \* the task that waits for a key, Boot for NULL
    buf, head, tail,    \* fifo
    keymap,         \* columns 2 and 3 of keymap: the keys that are down
    capslock_state,
    extcode_state,
    down,           \* the keys that are down (hardware)
    port,           \* bytes the controller holds for the driver (hardware)
    count,          \* what every task has asked for, 0 outside of a read
    got             \* what it has read so far

fifo == <<buf, head, tail>>
keys == <<keymap, capslock_state, extcode_state>>
hardware == <<down, port>>
calls == <<count, got>>
keyboardVars == <<waiter, fifo, keys, hardware, calls>>
allVars == <<vars, keyboardVars>>

KeyboardTypeOK ==
    /\ MutexTypeOK
    /\ waiter \in Task \cup {Boot}
    /\ buf \in [Position -> Visible \cup {INV}] /\ head \in Position /\ tail \in Position
    /\ keymap \in SUBSET (Code \X BOOLEAN)
    /\ capslock_state \in BOOLEAN /\ extcode_state \in BOOLEAN
    /\ down \subseteq Key
    /\ port \in Seq(Byte) /\ Len(port) <= MaxPort
    /\ count \in [Task -> 0..MaxCount]
    /\ got \in [Task -> Seq(Visible)]

KeyboardInit ==
    /\ MutexInit
    /\ waiter = Boot
    /\ buf = [i \in Position |-> INV]
    /\ head = 0 /\ tail = 0
    /\ keymap = {} /\ capslock_state = FALSE /\ extcode_state = FALSE
    /\ down = {} /\ port = <<>>
    /\ count = [t \in Task |-> 0]
    /\ got = [t \in Task |-> <<>>]

-----------------------------------------------------------------------------
\* Faulty variant: the end of the array is forgotten.
NextUnwrapped(pos) == pos + 1

fifo_next(pos) == (pos + 1) % Length

\* Faulty variant: the last place is used as well.
NeverFull == FALSE

fifo_full == fifo_next(head) = tail
fifo_empty == head = tail

\* fifo_put: the oldest character makes way in a full queue.
fifo_put(ch) ==
    /\ buf' = [buf EXCEPT ![head] = ch]
    /\ head' = fifo_next(head)
    /\ tail' = IF fifo_full THEN fifo_next(tail) ELSE tail

-----------------------------------------------------------------------------
\* A key goes down, or repeats, or goes up: the keyboard sends its bytes.
Led == {"NUMLOCK", "CAPSLOCK", "SCRLOCK"}

Send(k, up) ==
    /\ port' = port \o (IF k[2] THEN <<E0>> ELSE <<>>) \o << <<k[1], up>> >>
    /\ Len(port') <= MaxPort
    /\ QuietLeds => \A i \in DOMAIN port : port[i] \notin Led \X {FALSE}
    /\ UNCHANGED <<vars, waiter, fifo, keys, calls>>

Press == \E k \in Key : down' = down \cup {k} /\ Send(k, FALSE)

Release == \E k \in down : down' = down \ {k} /\ Send(k, TRUE)

-----------------------------------------------------------------------------
\* Faulty variant: an extended key leaves the state set.
ExtendedForEver == extcode_state' = extcode_state

ExtendedOnce == extcode_state' = FALSE

\* Faulty variant: the waiter is left to sleep.
WaiterLeft == UNCHANGED <<state, pc, waiter>>

\* The waiter is woken and forgotten.
WaiterWoken ==
    IF waiter = Boot
    THEN UNCHANGED <<state, pc, waiter>>
    ELSE /\ state' = Unblocked(state, {waiter})
         /\ Goto(waiter, "held")
         /\ waiter' = Boot

(***************************************************************************)
(* The character of a key that goes down: "'a' <= c <= 'z'" is true of     *)
(* every c in C, so that capslock shifts digits too, and an extended key   *)
(* other than [/?] is taken from column 1.                                 *)
(***************************************************************************)
Character(c, ext, caps, shift_state) ==
    IF ext /\ c # "SLASH" THEN <<c, 1>>
    ELSE <<c, IF caps # shift_state THEN 1 ELSE 0>>

\* The first byte of an extended key.
extended ==
    /\ extcode_state' = TRUE
    /\ port' = Tail(port)
    /\ UNCHANGED <<state, pc, waiter, fifo, keymap, capslock_state>>

\* A break code.
breakcode(c) ==
    /\ keymap' = keymap \ {<<c, extcode_state>>}
    /\ ExtendedOnce
    /\ port' = Tail(port)
    /\ UNCHANGED <<state, pc, waiter, fifo, capslock_state>>

\* A make code.  set_leds waits for two acknowledgements and drops every
\* other byte that it reads from the port.
makecode(c) ==
    /\ keymap' = keymap \cup {<<c, extcode_state>>}
    /\ ExtendedOnce
    /\ capslock_state' = (capslock_state # (c = "CAPSLOCK"))
    /\ port' = IF c \in Led THEN <<>> ELSE Tail(port)
    /\ LET shift_state == \E k \in {"SHIFT_L", "SHIFT_R"} : <<k, FALSE>> \in keymap'
           ch == Character(c, extcode_state, capslock_state', shift_state)
       IN  IF ch \in Visible
           THEN fifo_put(ch) /\ WaiterWoken
           ELSE UNCHANGED <<state, pc, waiter, fifo>>

keyboard_handler ==
    /\ InUserMode
    /\ port # <<>>
    /\ IF Head(port) = E0 THEN extended
       ELSE IF Head(port)[2] THEN breakcode(Head(port)[1])
       ELSE makecode(Head(port)[1])
    /\ UNCHANGED <<current, lockVars, down, calls>>

-----------------------------------------------------------------------------
\* A task reads n characters from the keyboard: it takes the lock, or waits.
keyboard_read(t) ==
    /\ \E n \in 1..MaxCount : count' = [count EXCEPT ![t] = n]
    /\ lock_acquire(t)
    /\ UNCHANGED <<waiter, fifo, keys, hardware, got>>

keyboard_lock_again(t) ==
    /\ mutex_lock_again(t)
    /\ UNCHANGED keyboardVars

\* The queue is empty: the task waits for a key.
keyboard_wait(t) ==
    /\ pc[t] = "held"
    /\ Len(got[t]) < count[t] /\ fifo_empty
    /\ waiter' = t
    /\ device_wait(t)
    /\ UNCHANGED <<fifo, keys, hardware, calls>>

\* fifo_get.
keyboard_get(t) ==
    /\ current = t /\ pc[t] = "held"
    /\ Len(got[t]) < count[t] /\ ~fifo_empty
    /\ got' = [got EXCEPT ![t] = Append(@, buf[tail])]
    /\ tail' = fifo_next(tail)
    /\ UNCHANGED <<vars, waiter, buf, head, keys, hardware, count>>

keyboard_return(t) ==
    /\ Len(got[t]) = count[t]
    /\ lock_release(t)
    /\ count' = [count EXCEPT ![t] = 0]
    /\ got' = [got EXCEPT ![t] = <<>>]
    /\ UNCHANGED <<waiter, fifo, keys, hardware>>

KeyboardNext ==
    \/ Preempt /\ UNCHANGED keyboardVars
    \/ Press \/ Release
    \/ keyboard_handler
    \/ \E t \in Task : \/ keyboard_read(t) \/ keyboard_lock_again(t)
                       \/ keyboard_wait(t) \/ keyboard_get(t)
                       \/ keyboard_return(t)

KeyboardSpec == KeyboardInit /\ [][KeyboardNext]_allVars

-----------------------------------------------------------------------------
(***************************************************************************)
(* No key is left behind: a task that waits in keyboard_read is the one    *)
(* that the handler will wake, it holds the lock, and the queue is empty.  *)
(* Several readers and several keys may come before it runs.               *)
(***************************************************************************)
ReaderIsWoken ==
    \A t \in Task : pc[t] = "device" /\ state[t] = "BLOCKED"
                       <=> waiter = t /\ holder = t /\ fifo_empty

\* The keys of one read follow each other: readers do not share them out.
OneReader == \A t, u \in Task : got[t] # <<>> /\ got[u] # <<>> => t = u

queue == [i \in 1..((head - tail) % Length) |-> buf[(tail + i - 1) % Length]]

(***************************************************************************)
(* The ring of fifo.c is a queue of Length - 1 characters that loses its   *)
(* oldest one when it is full, wherever head and tail are: a read takes    *)
(* the first character, a key adds one at the end.                         *)
(***************************************************************************)
RingIsQueue ==
    [][\/ queue' = queue
       \/ /\ queue # <<>> /\ queue' = Tail(queue)
          /\ \E t \in Task : got'[t] = Append(got[t], Head(queue))
       \/ \E ch \in Visible :
             queue' = Append(IF Len(queue) = Length - 1 THEN Tail(queue) ELSE queue, ch)
      ]_allVars

(***************************************************************************)
(* When the driver has read every byte it knows which keys are down: a     *)
(* key that it takes for another one, or whose break code it misses,       *)
(* would stay down, and shift every character from then on.                *)
(***************************************************************************)
KnowsKeys == port = <<>> => keymap = down
=============================================================================
