\* Three stages that run as graphs and one buffer; or one stage with its code.
SPECIFICATION Spec
CONSTANTS
  onnx = onnx
  ptx = ptx
  cubin = cubin
  cpu = cpu
  cuda = cuda
  any = any
  sm80 = sm80
  sm90 = sm90
  StageName = {trunk, encoder}
  Trunk = trunk
  BufferName = {latent}
  TensorName = {x, y}
  Kind = {onnx, ptx, cubin}
  Onnx = onnx
  Family <- MCFamily
  NoFamily = cpu
  Arch = {any, sm80}
  AnyArch = any
  Payload = {empty, p}
  Empty = empty
  None = none
  Device <- MCDevice
  MaxBuffers = 2
  MaxStages = 3
  MaxPorts = 1
  MaxLaunches = 2
  MaxBlocks = 2
\* A producer may stop wherever it likes.
CHECK_DEADLOCK FALSE
INVARIANTS
  TypeOK
  BuiltIsWellWired
  PortableMeansEverywhere
  LaunchIsOfTheForm
CONSTRAINT MCScope
