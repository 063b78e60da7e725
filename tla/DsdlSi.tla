------------------------------- MODULE DsdlSi -------------------------------
(***************************************************************************)
(* The schemas of the types of the namespace uavcan.si: quantities with a  *)
(* unit, plain and with a time stamp                                       *)
(* (src/Lib/cyphal_public_regulated_data_types_compiled/uavcan/si).  A     *)
(* schema is what the bodies of X_serialize_ and X_deserialize_ and the    *)
(* two size macros of the type X say: the members in their order, and how  *)
(* each is put on the wire.  A union lists its options in the order of the *)
(* tag.                                                                    *)
(***************************************************************************)
EXTENDS DsdlUavcan

-----------------------------------------------------------------------------

\* timestamp, meter_per_second_per_second
uavcan_si_sample_acceleration_Scalar_1_0 ==
  Struct("uavcan.si.sample.acceleration.Scalar", <<1, 0>>, 11, 11,
    <<uavcan_time_SynchronizedTimestamp_1_0, Float(32)>>)

\* timestamp, meter_per_second_per_second
uavcan_si_sample_acceleration_Vector3_1_0 ==
  Struct("uavcan.si.sample.acceleration.Vector3", <<1, 0>>, 19, 19,
    <<uavcan_time_SynchronizedTimestamp_1_0, Fixed(3, Float(32))>>)

\* timestamp, wxyz
uavcan_si_sample_angle_Quaternion_1_0 ==
  Struct("uavcan.si.sample.angle.Quaternion", <<1, 0>>, 23, 23,
    <<uavcan_time_SynchronizedTimestamp_1_0, Fixed(4, Float(32))>>)

\* timestamp, radian
uavcan_si_sample_angle_Scalar_1_0 ==
  Struct("uavcan.si.sample.angle.Scalar", <<1, 0>>, 11, 11,
    <<uavcan_time_SynchronizedTimestamp_1_0, Float(32)>>)

\* timestamp, radian_per_second_per_second
uavcan_si_sample_angular_acceleration_Scalar_1_0 ==
  Struct("uavcan.si.sample.angular_acceleration.Scalar", <<1, 0>>, 11, 11,
    <<uavcan_time_SynchronizedTimestamp_1_0, Float(32)>>)

\* timestamp, radian_per_second_per_second
uavcan_si_sample_angular_acceleration_Vector3_1_0 ==
  Struct("uavcan.si.sample.angular_acceleration.Vector3", <<1, 0>>, 19, 19,
    <<uavcan_time_SynchronizedTimestamp_1_0, Fixed(3, Float(32))>>)

\* timestamp, radian_per_second
uavcan_si_sample_angular_velocity_Scalar_1_0 ==
  Struct("uavcan.si.sample.angular_velocity.Scalar", <<1, 0>>, 11, 11,
    <<uavcan_time_SynchronizedTimestamp_1_0, Float(32)>>)

\* timestamp, radian_per_second
uavcan_si_sample_angular_velocity_Vector3_1_0 ==
  Struct("uavcan.si.sample.angular_velocity.Vector3", <<1, 0>>, 19, 19,
    <<uavcan_time_SynchronizedTimestamp_1_0, Fixed(3, Float(32))>>)

\* timestamp, second
uavcan_si_sample_duration_Scalar_1_0 ==
  Struct("uavcan.si.sample.duration.Scalar", <<1, 0>>, 11, 11,
    <<uavcan_time_SynchronizedTimestamp_1_0, Float(32)>>)

\* timestamp, second
uavcan_si_sample_duration_WideScalar_1_0 ==
  Struct("uavcan.si.sample.duration.WideScalar", <<1, 0>>, 15, 15,
    <<uavcan_time_SynchronizedTimestamp_1_0, Float(64)>>)

\* timestamp, coulomb
uavcan_si_sample_electric_charge_Scalar_1_0 ==
  Struct("uavcan.si.sample.electric_charge.Scalar", <<1, 0>>, 11, 11,
    <<uavcan_time_SynchronizedTimestamp_1_0, Float(32)>>)

\* timestamp, ampere
uavcan_si_sample_electric_current_Scalar_1_0 ==
  Struct("uavcan.si.sample.electric_current.Scalar", <<1, 0>>, 11, 11,
    <<uavcan_time_SynchronizedTimestamp_1_0, Float(32)>>)

\* timestamp, joule
uavcan_si_sample_energy_Scalar_1_0 ==
  Struct("uavcan.si.sample.energy.Scalar", <<1, 0>>, 11, 11,
    <<uavcan_time_SynchronizedTimestamp_1_0, Float(32)>>)

\* timestamp, newton
uavcan_si_sample_force_Scalar_1_0 ==
  Struct("uavcan.si.sample.force.Scalar", <<1, 0>>, 11, 11,
    <<uavcan_time_SynchronizedTimestamp_1_0, Float(32)>>)

\* timestamp, newton
uavcan_si_sample_force_Vector3_1_0 ==
  Struct("uavcan.si.sample.force.Vector3", <<1, 0>>, 19, 19,
    <<uavcan_time_SynchronizedTimestamp_1_0, Fixed(3, Float(32))>>)

\* timestamp, hertz
uavcan_si_sample_frequency_Scalar_1_0 ==
  Struct("uavcan.si.sample.frequency.Scalar", <<1, 0>>, 11, 11,
    <<uavcan_time_SynchronizedTimestamp_1_0, Float(32)>>)

\* timestamp, meter
uavcan_si_sample_length_Scalar_1_0 ==
  Struct("uavcan.si.sample.length.Scalar", <<1, 0>>, 11, 11,
    <<uavcan_time_SynchronizedTimestamp_1_0, Float(32)>>)

\* timestamp, meter
uavcan_si_sample_length_Vector3_1_0 ==
  Struct("uavcan.si.sample.length.Vector3", <<1, 0>>, 19, 19,
    <<uavcan_time_SynchronizedTimestamp_1_0, Fixed(3, Float(32))>>)

\* timestamp, meter
uavcan_si_sample_length_WideScalar_1_0 ==
  Struct("uavcan.si.sample.length.WideScalar", <<1, 0>>, 15, 15,
    <<uavcan_time_SynchronizedTimestamp_1_0, Float(64)>>)

\* timestamp, meter
uavcan_si_sample_length_WideVector3_1_0 ==
  Struct("uavcan.si.sample.length.WideVector3", <<1, 0>>, 31, 31,
    <<uavcan_time_SynchronizedTimestamp_1_0, Fixed(3, Float(64))>>)

\* timestamp, tesla
uavcan_si_sample_magnetic_field_strength_Scalar_1_0 ==
  Struct("uavcan.si.sample.magnetic_field_strength.Scalar", <<1, 0>>, 11, 11,
    <<uavcan_time_SynchronizedTimestamp_1_0, Float(32)>>)

\* timestamp, tesla
uavcan_si_sample_magnetic_field_strength_Vector3_1_0 ==
  Struct("uavcan.si.sample.magnetic_field_strength.Vector3", <<1, 0>>, 19, 19,
    <<uavcan_time_SynchronizedTimestamp_1_0, Fixed(3, Float(32))>>)

\* timestamp, kilogram
uavcan_si_sample_mass_Scalar_1_0 ==
  Struct("uavcan.si.sample.mass.Scalar", <<1, 0>>, 11, 11,
    <<uavcan_time_SynchronizedTimestamp_1_0, Float(32)>>)

\* timestamp, watt
uavcan_si_sample_power_Scalar_1_0 ==
  Struct("uavcan.si.sample.power.Scalar", <<1, 0>>, 11, 11,
    <<uavcan_time_SynchronizedTimestamp_1_0, Float(32)>>)

\* timestamp, pascal
uavcan_si_sample_pressure_Scalar_1_0 ==
  Struct("uavcan.si.sample.pressure.Scalar", <<1, 0>>, 11, 11,
    <<uavcan_time_SynchronizedTimestamp_1_0, Float(32)>>)

\* timestamp, kelvin
uavcan_si_sample_temperature_Scalar_1_0 ==
  Struct("uavcan.si.sample.temperature.Scalar", <<1, 0>>, 11, 11,
    <<uavcan_time_SynchronizedTimestamp_1_0, Float(32)>>)

\* timestamp, newton_meter
uavcan_si_sample_torque_Scalar_1_0 ==
  Struct("uavcan.si.sample.torque.Scalar", <<1, 0>>, 11, 11,
    <<uavcan_time_SynchronizedTimestamp_1_0, Float(32)>>)

\* timestamp, newton_meter
uavcan_si_sample_torque_Vector3_1_0 ==
  Struct("uavcan.si.sample.torque.Vector3", <<1, 0>>, 19, 19,
    <<uavcan_time_SynchronizedTimestamp_1_0, Fixed(3, Float(32))>>)

\* timestamp, meter_per_second
uavcan_si_sample_velocity_Scalar_1_0 ==
  Struct("uavcan.si.sample.velocity.Scalar", <<1, 0>>, 11, 11,
    <<uavcan_time_SynchronizedTimestamp_1_0, Float(32)>>)

\* timestamp, meter_per_second
uavcan_si_sample_velocity_Vector3_1_0 ==
  Struct("uavcan.si.sample.velocity.Vector3", <<1, 0>>, 19, 19,
    <<uavcan_time_SynchronizedTimestamp_1_0, Fixed(3, Float(32))>>)

\* timestamp, volt
uavcan_si_sample_voltage_Scalar_1_0 ==
  Struct("uavcan.si.sample.voltage.Scalar", <<1, 0>>, 11, 11,
    <<uavcan_time_SynchronizedTimestamp_1_0, Float(32)>>)

\* timestamp, cubic_meter
uavcan_si_sample_volume_Scalar_1_0 ==
  Struct("uavcan.si.sample.volume.Scalar", <<1, 0>>, 11, 11,
    <<uavcan_time_SynchronizedTimestamp_1_0, Float(32)>>)

\* timestamp, cubic_meter_per_second
uavcan_si_sample_volumetric_flow_rate_Scalar_1_0 ==
  Struct("uavcan.si.sample.volumetric_flow_rate.Scalar", <<1, 0>>, 11, 11,
    <<uavcan_time_SynchronizedTimestamp_1_0, Float(32)>>)

-----------------------------------------------------------------------------

\* meter_per_second_per_second
uavcan_si_unit_acceleration_Scalar_1_0 ==
  Struct("uavcan.si.unit.acceleration.Scalar", <<1, 0>>, 4, 4, <<Float(32)>>)

\* meter_per_second_per_second
uavcan_si_unit_acceleration_Vector3_1_0 ==
  Struct("uavcan.si.unit.acceleration.Vector3", <<1, 0>>, 12, 12,
    <<Fixed(3, Float(32))>>)

\* wxyz
uavcan_si_unit_angle_Quaternion_1_0 ==
  Struct("uavcan.si.unit.angle.Quaternion", <<1, 0>>, 16, 16,
    <<Fixed(4, Float(32))>>)

\* radian
uavcan_si_unit_angle_Scalar_1_0 ==
  Struct("uavcan.si.unit.angle.Scalar", <<1, 0>>, 4, 4, <<Float(32)>>)

\* radian_per_second_per_second
uavcan_si_unit_angular_acceleration_Scalar_1_0 ==
  Struct("uavcan.si.unit.angular_acceleration.Scalar", <<1, 0>>, 4, 4,
    <<Float(32)>>)

\* radian_per_second_per_second
uavcan_si_unit_angular_acceleration_Vector3_1_0 ==
  Struct("uavcan.si.unit.angular_acceleration.Vector3", <<1, 0>>, 12, 12,
    <<Fixed(3, Float(32))>>)

\* radian_per_second
uavcan_si_unit_angular_velocity_Scalar_1_0 ==
  Struct("uavcan.si.unit.angular_velocity.Scalar", <<1, 0>>, 4, 4,
    <<Float(32)>>)

\* radian_per_second
uavcan_si_unit_angular_velocity_Vector3_1_0 ==
  Struct("uavcan.si.unit.angular_velocity.Vector3", <<1, 0>>, 12, 12,
    <<Fixed(3, Float(32))>>)

\* second
uavcan_si_unit_duration_Scalar_1_0 ==
  Struct("uavcan.si.unit.duration.Scalar", <<1, 0>>, 4, 4, <<Float(32)>>)

\* second
uavcan_si_unit_duration_WideScalar_1_0 ==
  Struct("uavcan.si.unit.duration.WideScalar", <<1, 0>>, 8, 8, <<Float(64)>>)

\* coulomb
uavcan_si_unit_electric_charge_Scalar_1_0 ==
  Struct("uavcan.si.unit.electric_charge.Scalar", <<1, 0>>, 4, 4,
    <<Float(32)>>)

\* ampere
uavcan_si_unit_electric_current_Scalar_1_0 ==
  Struct("uavcan.si.unit.electric_current.Scalar", <<1, 0>>, 4, 4,
    <<Float(32)>>)

\* joule
uavcan_si_unit_energy_Scalar_1_0 ==
  Struct("uavcan.si.unit.energy.Scalar", <<1, 0>>, 4, 4, <<Float(32)>>)

\* newton
uavcan_si_unit_force_Scalar_1_0 ==
  Struct("uavcan.si.unit.force.Scalar", <<1, 0>>, 4, 4, <<Float(32)>>)

\* newton
uavcan_si_unit_force_Vector3_1_0 ==
  Struct("uavcan.si.unit.force.Vector3", <<1, 0>>, 12, 12,
    <<Fixed(3, Float(32))>>)

\* hertz
uavcan_si_unit_frequency_Scalar_1_0 ==
  Struct("uavcan.si.unit.frequency.Scalar", <<1, 0>>, 4, 4, <<Float(32)>>)

\* meter
uavcan_si_unit_length_Scalar_1_0 ==
  Struct("uavcan.si.unit.length.Scalar", <<1, 0>>, 4, 4, <<Float(32)>>)

\* meter
uavcan_si_unit_length_Vector3_1_0 ==
  Struct("uavcan.si.unit.length.Vector3", <<1, 0>>, 12, 12,
    <<Fixed(3, Float(32))>>)

\* meter
uavcan_si_unit_length_WideScalar_1_0 ==
  Struct("uavcan.si.unit.length.WideScalar", <<1, 0>>, 8, 8, <<Float(64)>>)

\* meter
uavcan_si_unit_length_WideVector3_1_0 ==
  Struct("uavcan.si.unit.length.WideVector3", <<1, 0>>, 24, 24,
    <<Fixed(3, Float(64))>>)

\* tesla
uavcan_si_unit_magnetic_field_strength_Scalar_1_0 ==
  Struct("uavcan.si.unit.magnetic_field_strength.Scalar", <<1, 0>>, 4, 4,
    <<Float(32)>>)

\* tesla
uavcan_si_unit_magnetic_field_strength_Vector3_1_0 ==
  Struct("uavcan.si.unit.magnetic_field_strength.Vector3", <<1, 0>>, 12, 12,
    <<Fixed(3, Float(32))>>)

\* kilogram
uavcan_si_unit_mass_Scalar_1_0 ==
  Struct("uavcan.si.unit.mass.Scalar", <<1, 0>>, 4, 4, <<Float(32)>>)

\* watt
uavcan_si_unit_power_Scalar_1_0 ==
  Struct("uavcan.si.unit.power.Scalar", <<1, 0>>, 4, 4, <<Float(32)>>)

\* pascal
uavcan_si_unit_pressure_Scalar_1_0 ==
  Struct("uavcan.si.unit.pressure.Scalar", <<1, 0>>, 4, 4, <<Float(32)>>)

\* kelvin
uavcan_si_unit_temperature_Scalar_1_0 ==
  Struct("uavcan.si.unit.temperature.Scalar", <<1, 0>>, 4, 4, <<Float(32)>>)

\* newton_meter
uavcan_si_unit_torque_Scalar_1_0 ==
  Struct("uavcan.si.unit.torque.Scalar", <<1, 0>>, 4, 4, <<Float(32)>>)

\* newton_meter
uavcan_si_unit_torque_Vector3_1_0 ==
  Struct("uavcan.si.unit.torque.Vector3", <<1, 0>>, 12, 12,
    <<Fixed(3, Float(32))>>)

\* meter_per_second
uavcan_si_unit_velocity_Scalar_1_0 ==
  Struct("uavcan.si.unit.velocity.Scalar", <<1, 0>>, 4, 4, <<Float(32)>>)

\* meter_per_second
uavcan_si_unit_velocity_Vector3_1_0 ==
  Struct("uavcan.si.unit.velocity.Vector3", <<1, 0>>, 12, 12,
    <<Fixed(3, Float(32))>>)

\* volt
uavcan_si_unit_voltage_Scalar_1_0 ==
  Struct("uavcan.si.unit.voltage.Scalar", <<1, 0>>, 4, 4, <<Float(32)>>)

\* cubic_meter
uavcan_si_unit_volume_Scalar_1_0 ==
  Struct("uavcan.si.unit.volume.Scalar", <<1, 0>>, 4, 4, <<Float(32)>>)

\* cubic_meter_per_second
uavcan_si_unit_volumetric_flow_rate_Scalar_1_0 ==
  Struct("uavcan.si.unit.volumetric_flow_rate.Scalar", <<1, 0>>, 4, 4,
    <<Float(32)>>)

-----------------------------------------------------------------------------
(* all of them *)
DsdlSiTypes ==
  <<uavcan_si_sample_acceleration_Scalar_1_0,
    uavcan_si_sample_acceleration_Vector3_1_0,
    uavcan_si_sample_angle_Quaternion_1_0, uavcan_si_sample_angle_Scalar_1_0,
    uavcan_si_sample_angular_acceleration_Scalar_1_0,
    uavcan_si_sample_angular_acceleration_Vector3_1_0,
    uavcan_si_sample_angular_velocity_Scalar_1_0,
    uavcan_si_sample_angular_velocity_Vector3_1_0,
    uavcan_si_sample_duration_Scalar_1_0,
    uavcan_si_sample_duration_WideScalar_1_0,
    uavcan_si_sample_electric_charge_Scalar_1_0,
    uavcan_si_sample_electric_current_Scalar_1_0,
    uavcan_si_sample_energy_Scalar_1_0, uavcan_si_sample_force_Scalar_1_0,
    uavcan_si_sample_force_Vector3_1_0,
    uavcan_si_sample_frequency_Scalar_1_0,
    uavcan_si_sample_length_Scalar_1_0, uavcan_si_sample_length_Vector3_1_0,
    uavcan_si_sample_length_WideScalar_1_0,
    uavcan_si_sample_length_WideVector3_1_0,
    uavcan_si_sample_magnetic_field_strength_Scalar_1_0,
    uavcan_si_sample_magnetic_field_strength_Vector3_1_0,
    uavcan_si_sample_mass_Scalar_1_0, uavcan_si_sample_power_Scalar_1_0,
    uavcan_si_sample_pressure_Scalar_1_0,
    uavcan_si_sample_temperature_Scalar_1_0,
    uavcan_si_sample_torque_Scalar_1_0, uavcan_si_sample_torque_Vector3_1_0,
    uavcan_si_sample_velocity_Scalar_1_0,
    uavcan_si_sample_velocity_Vector3_1_0,
    uavcan_si_sample_voltage_Scalar_1_0, uavcan_si_sample_volume_Scalar_1_0,
    uavcan_si_sample_volumetric_flow_rate_Scalar_1_0,
    uavcan_si_unit_acceleration_Scalar_1_0,
    uavcan_si_unit_acceleration_Vector3_1_0,
    uavcan_si_unit_angle_Quaternion_1_0, uavcan_si_unit_angle_Scalar_1_0,
    uavcan_si_unit_angular_acceleration_Scalar_1_0,
    uavcan_si_unit_angular_acceleration_Vector3_1_0,
    uavcan_si_unit_angular_velocity_Scalar_1_0,
    uavcan_si_unit_angular_velocity_Vector3_1_0,
    uavcan_si_unit_duration_Scalar_1_0,
    uavcan_si_unit_duration_WideScalar_1_0,
    uavcan_si_unit_electric_charge_Scalar_1_0,
    uavcan_si_unit_electric_current_Scalar_1_0,
    uavcan_si_unit_energy_Scalar_1_0, uavcan_si_unit_force_Scalar_1_0,
    uavcan_si_unit_force_Vector3_1_0, uavcan_si_unit_frequency_Scalar_1_0,
    uavcan_si_unit_length_Scalar_1_0, uavcan_si_unit_length_Vector3_1_0,
    uavcan_si_unit_length_WideScalar_1_0,
    uavcan_si_unit_length_WideVector3_1_0,
    uavcan_si_unit_magnetic_field_strength_Scalar_1_0,
    uavcan_si_unit_magnetic_field_strength_Vector3_1_0,
    uavcan_si_unit_mass_Scalar_1_0, uavcan_si_unit_power_Scalar_1_0,
    uavcan_si_unit_pressure_Scalar_1_0,
    uavcan_si_unit_temperature_Scalar_1_0, uavcan_si_unit_torque_Scalar_1_0,
    uavcan_si_unit_torque_Vector3_1_0, uavcan_si_unit_velocity_Scalar_1_0,
    uavcan_si_unit_velocity_Vector3_1_0, uavcan_si_unit_voltage_Scalar_1_0,
    uavcan_si_unit_volume_Scalar_1_0,
    uavcan_si_unit_volumetric_flow_rate_Scalar_1_0>>

=============================================================================
