SPECIFICATION Spec
CONSTANTS
    PageTokens = 2
    CpuPages = 3
    MaxPages = 2
    MaxPosition = 3
    Names = {x, y}
    Tokens = {t, u}
    Blank = blank
    RowsBound = 2
    DeviceBound = 2
    Faults = {"cuStreamSynchronize", "cuMemcpyHtoD", "cuMemcpyDtoD", "cuMemAlloc", "Device::poll"}
INVARIANTS TypeOK PoolExact SpanReadable TablesPublished DeviceWorkConfined
PROPERTIES RefinesStore
SYMMETRY Symmetry
