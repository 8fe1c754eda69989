\* Four threads: two can wait on each side while another holds the lock.
CONSTANT
  Thread = {t1, t2, t3, t4}
SPECIFICATION FairSpec
INVARIANTS TypeOK CountersExact MutualExclusion NoLostWakeup
PROPERTIES WriterProgress ReaderProgress ImplementsLock
