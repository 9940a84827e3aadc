------------------------------ MODULE MCHeap ------------------------------
EXTENDS Heap
MCGroups == {<<8, 20>>}
=============================================================================
