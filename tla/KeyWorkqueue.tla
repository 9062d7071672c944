---------------------------- MODULE KeyWorkqueue ----------------------------
(***************************************************************************)
(* The keyboard interrupt with two work items (lab-irq/task-02/wq.c).      *)
(*                                                                         *)
(* The interrupt handler reads a scan code, stores it into both work items *)
(* and queues them.  An item that is already pending is not queued again,  *)
(* so codes that come quickly are coalesced: an item handles whatever code *)
(* it finds when it runs.  One item handles the code at once, the other    *)
(* sleeps first; since any time may pass before either loads its code, the *)
(* sleep is no step of its own.                                            *)
(*                                                                         *)
(* The kernel (external) clears an item's pending bit before it runs it    *)
(* and never runs one item twice at a time; the two items may run at the   *)
(* same time on two processors.  Interrupts of the line do not nest.       *)
(*                                                                         *)
(* The line is requested before the queue and the items exist and freed    *)
(* after they are gone, and the handler does not ask.  Where a missing,    *)
(* uninitialised or freed item is about to be used (Oops) the model stops: *)
(* nothing is said of what follows.                                        *)
(***************************************************************************)
EXTENDS Naturals

CONSTANTS
    Keys,    \* the codes that change neither shift nor caps lock
    NoCode   \* a code not yet there

\* 42 and 54 pressed, 42 and 54 released, 58 pressed.
Modifiers == {"shift", "unshift", "caps"}
Codes == Keys \cup Modifiers

ASSUME CodesAssumption == Keys \cap Modifiers = {} /\ NoCode \notin Codes

VARIABLES
    module,          \* how far loading or unloading has come
    irq,             \* where the interrupt handler is
    code,            \* the code it has read
    scancode,        \* the code in each item
    pending,         \* the items that are queued
    wpc,             \* where each item's function is
    arg,             \* the code process_key was called with
    reg,             \* caps_lock_on as read for its negation
    shift_pressed,
    caps_lock_on,    \* 0 or 1
    handled          \* the last code each item has handled

vars == <<module, irq, code, scancode, pending, wpc, arg, reg, shift_pressed,
          caps_lock_on, handled>>
keys == <<shift_pressed, caps_lock_on, handled>>
items == <<scancode, wpc, arg, reg>>

Items == {"work_immediate", "work_delayed"}

TypeOK ==
    /\ module \in {"absent", "requested", "queue", "items", "loaded", "cancelling",
                   "cancelled", "freed", "destroyed", "unloaded", "failed"}
    /\ irq \in {"idle", "store", "queue1", "queue2"}
    /\ code \in Codes \cup {NoCode}
    /\ scancode \in [Items -> Codes \cup {NoCode}]
    /\ pending \subseteq Items
    /\ wpc \in [Items -> {"idle", "load", "process", "negate"}]
    /\ arg \in [Items -> Codes \cup {NoCode}]
    /\ reg \in [Items -> 0 .. 1]
    /\ shift_pressed \in BOOLEAN
    /\ caps_lock_on \in 0 .. 1
    /\ handled \in [Items -> Codes \cup {NoCode}]

Init ==
    /\ module = "absent"
    /\ irq = "idle"
    /\ code = NoCode
    /\ scancode = [i \in Items |-> NoCode]
    /\ pending = {}
    /\ wpc = [i \in Items |-> "idle"]
    /\ arg = [i \in Items |-> NoCode]
    /\ reg = [i \in Items |-> 0]
    /\ shift_pressed = FALSE
    /\ caps_lock_on = 0
    /\ handled = [i \in Items |-> NoCode]

-----------------------------------------------------------------------------
(* keylogger_init and keylogger_exit. *)

\* The handler is called.
Registered == module \notin {"absent", "unloaded", "failed"}

\* The items are allocated; they are also initialised.
Allocated == module \in {"items", "loaded", "cancelling", "cancelled"}
Initialised == module \in {"loaded", "cancelling", "cancelled"}

ModuleGoes(from, to) ==
    /\ module = from
    /\ module' = to
    /\ UNCHANGED <<irq, code, items, keys>>

\* request_irq, alloc_workqueue, the two kmallocs, the two INIT_WORKs.
RequestIrq    == ModuleGoes("absent", "requested") /\ UNCHANGED pending
AllocQueue    == ModuleGoes("requested", "queue") /\ UNCHANGED pending
AllocateItems == ModuleGoes("queue", "items") /\ UNCHANGED pending
InitWork      == ModuleGoes("items", "loaded") /\ UNCHANGED pending

\* One of the first three fails: what there is is given back; free_irq waits for
\* a running handler.
InitFails ==
    /\ \E from \in {"absent", "requested", "queue"} : ModuleGoes(from, "failed")
    /\ irq = "idle"
    /\ UNCHANGED pending

\* cancel_work_sync dequeues the item and waits until it does not run.
Cancel(i, from, to) ==
    /\ ModuleGoes(from, to)
    /\ wpc[i] = "idle"
    /\ pending' = pending \ {i}

CancelImmediate == Cancel("work_immediate", "loaded", "cancelling")
CancelDelayed   == Cancel("work_delayed", "cancelling", "cancelled")
FreeItems       == ModuleGoes("cancelled", "freed") /\ UNCHANGED pending

\* destroy_workqueue waits until the queue is empty.
DestroyQueue ==
    /\ ModuleGoes("freed", "destroyed")
    /\ pending = {} /\ \A i \in Items : wpc[i] = "idle"
    /\ UNCHANGED pending

FreeIrq == ModuleGoes("destroyed", "unloaded") /\ irq = "idle" /\ UNCHANGED pending

-----------------------------------------------------------------------------
(* my_irq_handler *)

\* inb and the first store.
ReadPort(c) ==
    /\ Registered /\ irq = "idle"
    /\ code' = c
    /\ scancode' = [scancode EXCEPT !["work_immediate"] = c]
    /\ irq' = "store"
    /\ UNCHANGED <<module, wpc, arg, reg, pending, keys>>

\* The second store.
Store ==
    /\ irq = "store"
    /\ scancode' = [scancode EXCEPT !["work_delayed"] = code]
    /\ irq' = "queue1"
    /\ UNCHANGED <<module, code, wpc, arg, reg, pending, keys>>

\* A slip: an item that is at work is not queued.
QueueIdle(i, from, to) ==
    /\ irq = from
    /\ pending' = IF wpc[i] = "idle" THEN pending \cup {i} ELSE pending
    /\ irq' = to
    /\ UNCHANGED <<module, code, items, keys>>

\* queue_work
Queue(i, from, to) ==
    /\ irq = from
    /\ pending' = pending \cup {i}
    /\ irq' = to
    /\ UNCHANGED <<module, code, items, keys>>

my_irq_handler ==
    \/ \E c \in Codes : ReadPort(c)
    \/ Store
    \/ Queue("work_immediate", "queue1", "queue2")
    \/ Queue("work_delayed", "queue2", "idle")

\* The next instruction of the handler, of the queue or of an item's function uses
\* an item that is not there, or queues one that is not initialised.
Oops ==
    \/ irq = "store" /\ ~Allocated
    \/ irq \in {"queue1", "queue2"} /\ ~Initialised
    \/ ~Allocated /\ \E i \in Items : i \in pending \/ wpc[i] = "load"

-----------------------------------------------------------------------------
(* The work items. *)

WorkGoes(i, from, to) ==
    /\ wpc[i] = from
    /\ wpc' = [wpc EXCEPT ![i] = to]
    /\ UNCHANGED <<module, irq, code, scancode>>

\* The kernel runs the item.
Begin(i) ==
    /\ i \in pending
    /\ WorkGoes(i, "idle", "load")
    /\ pending' = pending \ {i}
    /\ UNCHANGED <<arg, reg, keys>>

\* kw->scancode
Load(i) ==
    /\ WorkGoes(i, "load", "process")
    /\ arg' = [arg EXCEPT ![i] = scancode[i]]
    /\ UNCHANGED <<reg, pending, keys>>

\* The function returns.
Done(i) ==
    /\ handled' = [handled EXCEPT ![i] = arg[i]]
    /\ arg' = [arg EXCEPT ![i] = NoCode]
    /\ reg' = [reg EXCEPT ![i] = 0]
    /\ UNCHANGED pending

\* process_key for every code but caps lock: shift is pressed or released, and
\* other keys are logged.
process_key(i) ==
    /\ arg[i] # "caps"
    /\ WorkGoes(i, "process", "idle")
    /\ shift_pressed' = CASE arg[i] = "shift"   -> TRUE
                          [] arg[i] = "unshift" -> FALSE
                          [] OTHER              -> shift_pressed
    /\ Done(i)
    /\ UNCHANGED caps_lock_on

\* caps_lock_on = !caps_lock_on, a load and a store.
LoadCaps(i) ==
    /\ arg[i] = "caps"
    /\ WorkGoes(i, "process", "negate")
    /\ reg' = [reg EXCEPT ![i] = caps_lock_on]
    /\ UNCHANGED <<arg, pending, keys>>

StoreCaps(i) ==
    /\ WorkGoes(i, "negate", "idle")
    /\ caps_lock_on' = 1 - reg[i]
    /\ Done(i)
    /\ UNCHANGED shift_pressed

-----------------------------------------------------------------------------
ModuleStep ==
    \/ RequestIrq \/ AllocQueue \/ AllocateItems \/ InitWork \/ InitFails
    \/ CancelImmediate \/ CancelDelayed \/ FreeItems \/ DestroyQueue \/ FreeIrq

WorkStep(i) ==
    Begin(i) \/ Load(i) \/ process_key(i) \/ LoadCaps(i) \/ StoreCaps(i)

Next ==
    /\ ~Oops
    /\ ModuleStep \/ my_irq_handler \/ \E i \in Items : WorkStep(i)

Spec == Init /\ [][Next]_vars

-----------------------------------------------------------------------------
(* Properties *)

\* Nothing is under way: no handler, no item.
Quiet ==
    /\ module = "loaded" /\ irq = "idle"
    /\ pending = {} /\ \A i \in Items : wpc[i] = "idle"

\* Codes may be coalesced, but never the last one: when everything is quiet both
\* items have handled the code of the last interrupt, and if that was a shift key
\* shift_pressed says so, although an item may have loaded an older code and
\* handled it after the other one was through.
LastKeyHandled ==
    Quiet /\ code # NoCode =>
        /\ \A i \in Items : handled[i] = code
        /\ code = "shift" => shift_pressed
        /\ code = "unshift" => ~shift_pressed
=============================================================================
