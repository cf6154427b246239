\* All rows together: cursor, input, batches, metadata and intent under nested
\* transactions, failed acknowledgements and crashes.
SPECIFICATION Spec
CONSTANTS
    Cursors = {c1}
    Continuations = {k1}
    Bodies = {b1, b2}
    Rooms = {r1}
    Metadata = {m1}
    Intents = {i1}
    Consumers = {app}
    None = None
    Fresh = Fresh
    MaxSequence = 2
    MaxDepth = 2
INVARIANTS Coherent StreamOrdered RedeliveryStable
PROPERTIES ProgressMonotone ImplementsStream
