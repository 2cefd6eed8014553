\* prev_data starts with whatever the allocation held: bucket_cnt may
\* already equal the kernel's bucket count, and resume_latency_sum_ms may
\* exceed the kernel's first sum.
CONSTANTS
    NB = 2
    MaxBuckets = 36
    Latency <- MCLatency
    MaxResumes = 4
    SumBits = 5
    PrevSumInit = {0, 12}
    PrevCountInit = {0}
    PrevCntInit = {0, 2}
SPECIFICATION Spec
INVARIANT ReportWellDefined
