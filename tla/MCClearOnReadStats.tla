------------------------- MODULE MCClearOnReadStats -------------------------
EXTENDS ClearOnReadStats

\* Two of the three atomic-write counters, in the order the code reads them.
MCF2fsFiles == <<"peak_atomic_write", "committed_atomic_block">>

\* Two of the three compression counters: the one only read, and the one
\* whose clear also resets it.
MCComprFiles == <<"compr_written_block", "compr_saved_block">>

\* Two of the four GC modes, normal first as in logF2fsGcSegmentInfo.
MCGcModes == <<"gc_normal", "gc_urgent_high">>

\* Two slow-IO counters configured.
MCSlowIoOps == <<"slowio_read", "slowio_write">>

\* Both PCIe roots configured, modem first as in logPcieLinkStats.
MCRoots == <<"modem", "wifi">>

\* Two histogram buckets, a short and a long resume.
MCLatency == <<1, 3>>
=============================================================================
