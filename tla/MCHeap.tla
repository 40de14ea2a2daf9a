------------------------------- MODULE MCHeap --------------------------------
(* Heap for TLC, with memory to add right above the heap.                  *)
EXTENDS Heap

\* Small and unaligned, aligned, and with an alignment that is refused.
Requests == {<<1, 0>>, <<3, 8>>, <<1, 3>>}

Above == {[base |-> HEAP_START + HEAP_LEN, len |-> CHUNK_SIZE]}
=============================================================================
