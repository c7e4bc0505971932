-------------------------- MODULE ExampleBackends --------------------------
(***************************************************************************)
(* The three example backends side by side: a behaviour is one of a cache  *)
(* over one of them, whatever it is readers see a TokenStore.              *)
(***************************************************************************)
EXTENDS BackendDriver

CONSTANT CpuPages    \* MAX_PHYSICAL_PAGES of the CPU backend

ASSUME BackendsAssumption == CpuPages \in Nat

VARIABLES
    backend,         \* which backend the cache was built with
    storage,         \* the rows of every page
    tables,          \* each sequence's page table, of the backend's own type
    stream,          \* CudaPageBackend only
    buffers, parameters, queue, last_submission, copying   \* WgpuPageBackend only

wgpuVars == <<buffers, parameters, queue, last_submission, copying>>

vars == <<driver, pool, backend, storage, tables, stream, wgpuVars>>

Cpu  == INSTANCE CpuKvBackend WITH slots <- storage, MaxPages <- CpuPages
Cuda == INSTANCE CudaPageBackend WITH memory <- storage
Wgpu == INSTANCE WgpuPageBackend WITH slab <- storage

NoWgpu ==
    /\ buffers = <<>> /\ parameters = <<>>
    /\ queue = <<>> /\ last_submission = FALSE /\ copying = <<>>

Init ==
    \/ backend = "cpu"  /\ Cpu!Init  /\ stream = <<>> /\ NoWgpu
    \/ backend = "cuda" /\ Cuda!Init /\ NoWgpu
    \/ backend = "wgpu" /\ Wgpu!Init /\ stream = <<>>

CpuStep  == backend = "cpu"  /\ Cpu!Next  /\ UNCHANGED <<backend, stream, wgpuVars>>
CudaStep == backend = "cuda" /\ Cuda!Next /\ UNCHANGED <<backend, wgpuVars>>
WgpuStep == backend = "wgpu" /\ Wgpu!Next /\ UNCHANGED <<backend, stream>>

Next == CpuStep \/ CudaStep \/ WgpuStep

Spec == Init /\ [][Next]_vars

----------------------------------------------------------------------------

\* Type invariant of each backend.
TypeOK ==
    /\ backend \in {"cpu", "cuda", "wgpu"}
    /\ backend = "cpu"  => Cpu!TypeOK
    /\ backend = "cuda" => Cuda!TypeOK
    /\ backend = "wgpu" => Wgpu!TypeOK

\* The pages of the live sequences, and the destination of a copy in progress, are exactly
\* the live slots of the pool, and the stack names every other slot once: no validation
\* finds a stale page, none of the expect calls after it panics, and no exhausted
\* reservation, failed publication or failed copy loses a slot (allocate, release).
PoolExact ==
    PoolOwns(OwnedPages \cup IF backend = "wgpu" THEN Range(copying.page) ELSE {})

\* Once the device is idle the span that was written for a pending append is readable
\* behind the history, through the table that the reservation published and before any
\* commit (the attend call of cpu_paged_kv.rs reads it like that).
SpanReadable ==
    /\ backend = "cpu"  => Cpu!SpanReadable
    /\ backend = "cuda" => Cuda!SpanReadable

\* The device reads, or will when its queue is worked off, the table that the host believes
\* to be published, also after a publication failed in its transfer; and dispatch_append
\* never refuses a reservation with "published page table disagrees with append segments".
TablesPublished ==
    /\ backend = "cuda" => Cuda!DeviceTableExact
    /\ backend = "wgpu" => Wgpu!TablesPublished

\* Device work that has not run yet belongs to an append that is still pending and will
\* find that append's pages and parameters in the buffers it shares with later ones: it
\* never writes to a page that went back to the pool or before the committed position.
DeviceWorkConfined ==
    /\ backend = "cuda" => Cuda!KernelsConfined
    /\ backend = "wgpu" => Wgpu!DispatchesConfined

History(s) ==
    CASE ~sequences[s].live -> <<>>
      [] sequences[s].live /\ backend = "cpu"  -> Cpu!History(s)
      [] sequences[s].live /\ backend = "cuda" -> Cuda!History(s)
      [] sequences[s].live /\ backend = "wgpu" -> Wgpu!History(s)

Store == INSTANCE TokenStore WITH
    history <- [s \in Names |-> History(s)],
    retained <- <<>>

\* Over each backend, what a reader finds through the published table is what was committed,
\* from the moment the position is published: writes, aborts, partial commits, failed
\* driver calls, late kernels and copies, and recycled, shared or copied pages never change
\* it (cuda_paged_state.rs: "Hiding an aborted suffix is sufficient because a later append
\* overwrites those rows").
RefinesStore == Store!Spec

=============================================================================
