\* Two files of each looping reporter and both PCIe roots; a PCIe driver
\* that resets on write; an F2FS driver whose compr_saved_block reset also
\* resets compr_written_block; two kernel events in all, which can fall on
\* one counter before its read and between its read and its clear, or
\* before and after a clear, or on two counters.
CONSTANTS
    F2fsFiles <- MCF2fsFiles
    ComprFiles <- MCComprFiles
    GcModes <- MCGcModes
    ComprJointReset = TRUE
    SlowIoOps <- MCSlowIoOps
    Roots <- MCRoots
    ClearBySubtract = FALSE
    MaxEvents = 2
    NB = 2
    Latency <- MCLatency
    MaxResumes = 2
    SumBits = 5
SPECIFICATION Spec
INVARIANT IrqResetAfterReport
